---- MODULE Spec2Model ----
(***************************************************************************)
(* go-proxy: forwarding HTTP/HTTPS proxy with a blocklist, an in-memory    *)
(* per-host accumulator flushed to Redis in HOUR and DAY buckets, and a    *)
(* read API over the persisted buckets.                                    *)
(*                                                                         *)
(* Strings are sequences of tokens ("ads", ".", "com", ":", "443"), so     *)
(* that port stripping, regular-expression matching, key formatting, key   *)
(* splitting and glob scans are computed the way the code computes them.   *)
(* A time.Time is the number of whole hours since 2024-03-22 00:00.        *)
(***************************************************************************)
EXTENDS Integers, Sequences, FiniteSets, TLC

VARIABLES
    blockedRegs,   \* Server.blockedRegs: the compiled blocklist patterns
    live,          \* Server.stats.HostStats: host -> *stats.HostStats
    store,         \* the Redis keyspace: key -> JSON document
    clock,         \* time.Now(), in hours
    tunnels,       \* established CONNECT tunnels and their two copy goroutines
    geoCalls,      \* hosts handed to geo.RecordHostLocation
    resp,          \* what the current step reported: a handler's response to its
                   \* client, or the outcome of a flush cycle
    hist,          \* history: what the handlers and the flush timer did, in order
    nReq,          \* number of proxy requests handled
    nFlush,        \* number of flush cycles run
    nQuery,        \* number of API queries answered
    running,       \* the process has not exited
    geoEnabled,    \* globalGeoCache is set (cfg.GeoEnabled and geo.Initialize worked)
    memCache,      \* GeoCache.memCache: the LRU, least recently used first
    geoStore,      \* the geo:<host> keys of Redis
    lookups,       \* the goroutines LookupAsync started, in the order started
    tickC,         \* rateLimiter.C: the ticks in the channel's one-slot buffer
    recvq,         \* the goroutines parked in a receive on rateLimiter.C, first come first
    tickerOn       \* the rate limiter's ticker has not been stopped

geoVars == <<geoEnabled, memCache, geoStore, tickC, recvq, tickerOn>>

vars == <<blockedRegs, live, store, clock, tunnels, geoCalls, resp, hist,
          nReq, nFlush, nQuery, running, lookups, geoVars>>

-----------------------------------------------------------------------------
(* Bounds of the model.                                                    *)

MaxReq == 2
MaxFlush == 2
MaxQuery == 1
MaxHist == 3
StartClock == 23
MaxClock == 24
MaxGeoReq == 2
GeoCacheSize == 1

(* Program constants.                                                      *)

HoursPerDay == 24

-----------------------------------------------------------------------------
(* Token strings.                                                          *)

Colon == ":"
Dash == "-"
Star == "*"

HostAds == <<"ads", ".", "com">>
HostWeb == <<"web", ".", "org">>
Port443 == <<":", "443">>
Port8080 == <<":", "8080">>

\* r.Host values seen on the plain-HTTP listener and on the CONNECT listener
HTTPHosts == {HostAds, HostWeb \o Port8080}
ConnectHosts == {HostAds \o Port443, HostWeb \o Port443}

\* an IPv6 literal as it stands in the Host of a CONNECT request
Literal6 == <<"[", ":", ":", "1", "]">>
ConnectHosts6 == {HostWeb \o Port443, Literal6 \o Port443}

\* the hosts the geo package is handed
Public8 == <<"8", ".", "8", ".", "8", ".", "8">>
Public172 == <<"172", ".", "32", ".", "0", ".", "1">>
Private172 == <<"172", ".", "31", ".", "0", ".", "1">>
Private10Port == <<"10", ".", "0", ".", "0", ".", "1", ":", "8080">>
Loopback6 == <<":", ":", "1">>
GeoHosts == {Public8, Public172, Private172, Private10Port, Loopback6}

\* response body sizes of a forwarded HTTP request, and io.Copy counts of a tunnel
BodySizes == {0, 5}
TunnelSizes == {0, 7}

Max(S) == CHOOSE x \in S : \A y \in S : y <= x

\* strings.LastIndex(s, tok): the last position of tok in s, or 0 when absent
\* (positions are 1-based here, Go's -1 is 0)
LastIndex(s, tok) ==
    IF \E i \in 1..Len(s) : s[i] = tok
    THEN Max({i \in 1..Len(s) : s[i] = tok})
    ELSE 0

\* if idx := strings.LastIndex(host, ":"); idx != -1 { host = host[:idx] }
StripPort(host) ==
    IF LastIndex(host, Colon) # 0
    THEN SubSeq(host, 1, LastIndex(host, Colon) - 1)
    ELSE host

\* strings.Split(s, sep) for a one-token separator
RECURSIVE Split(_, _)
Split(s, sep) ==
    IF \E i \in 1..Len(s) : s[i] = sep
    THEN LET i == CHOOSE j \in 1..Len(s) :
                      s[j] = sep /\ \A k \in 1..(j - 1) : s[k] # sep
         IN <<SubSeq(s, 1, i - 1)>> \o Split(SubSeq(s, i + 1, Len(s)), sep)
    ELSE <<s>>

\* Redis glob matching of KEYS, "*" matching any run of tokens
RECURSIVE GlobMatch(_, _)
GlobMatch(pat, s) ==
    IF pat = <<>> THEN s = <<>>
    ELSE IF Head(pat) = Star
         THEN \/ GlobMatch(Tail(pat), s)
              \/ (s # <<>> /\ GlobMatch(pat, Tail(s)))
         ELSE s # <<>> /\ Head(s) = Head(pat) /\ GlobMatch(Tail(pat), Tail(s))

-----------------------------------------------------------------------------
(* Blocklist.  A pattern is a literal with optional ^ and $ anchors.       *)

PatAds == [lit |-> <<"ads", ".">>, anchorStart |-> FALSE, anchorEnd |-> FALSE]
PatComEnd == [lit |-> <<".", "com">>, anchorStart |-> FALSE, anchorEnd |-> TRUE]

\* the blocklist files the server is started with
BlockLists == {<<PatComEnd>>, <<PatAds, PatComEnd>>}

\* regexp.MatchString: an unanchored search unless the pattern anchors itself
MatchString(reg, s) ==
    \E i \in 1..(Len(s) - Len(reg.lit) + 1) :
        /\ SubSeq(s, i, i + Len(reg.lit) - 1) = reg.lit
        /\ (reg.anchorStart => i = 1)
        /\ (reg.anchorEnd => i + Len(reg.lit) - 1 = Len(s))

isBlocked(host) ==
    IF Len(blockedRegs) = 0 THEN FALSE
    ELSE \E i \in 1..Len(blockedRegs) : MatchString(blockedRegs[i], host)

-----------------------------------------------------------------------------
(* Time formatting and parsing.                                            *)

DayStr == <<"22", "23", "24", "25">>
HourStr == <<"00", "01", "02", "03", "04", "05", "06", "07", "08", "09", "10", "11",
             "12", "13", "14", "15", "16", "17", "18", "19", "20", "21", "22", "23">>

\* now.Format("2006-01-02")
FormatDay(t) == <<"2024", Dash, "03", Dash, DayStr[(t \div HoursPerDay) + 1]>>

\* now.Format("2006-01-02-15")
FormatHour(t) == FormatDay(t) \o <<Dash, HourStr[(t % HoursPerDay) + 1]>>

\* time.Parse("2006-01-02", s): midnight of that day, or an error
ParseDay(s) ==
    IF /\ Len(s) = 5
       /\ s[1] = "2024" /\ s[2] = Dash /\ s[3] = "03" /\ s[4] = Dash
       /\ \E d \in 1..Len(DayStr) : DayStr[d] = s[5]
    THEN [err |-> FALSE,
          t |-> ((CHOOSE d \in 1..Len(DayStr) : DayStr[d] = s[5]) - 1) * HoursPerDay]
    ELSE [err |-> TRUE, t |-> 0]

\* net.LookupHost: which names resolve
LookupHost(host) == IF host = HostWeb THEN "93.184.216.34" ELSE "unknown"

-----------------------------------------------------------------------------
(* stats.HostStats and its JSON form.                                      *)

NewHostStats(host, ips, now) ==
    [Host |-> host, IPs |-> ips, Connections |-> 0, RequestCount |-> 0,
     BlockedAttempts |-> 0, BytesTransferred |-> 0, Blocked |-> FALSE,
     LastSeen |-> now]

\* json.Marshal(hostStats): the struct's json tags
Marshal(hs) ==
    [host |-> hs.Host, ips |-> hs.IPs, connections |-> hs.Connections,
     request_count |-> hs.RequestCount, blocked_attempts |-> hs.BlockedAttempts,
     bytes_transferred |-> hs.BytesTransferred, blocked |-> hs.Blocked,
     last_seen |-> hs.LastSeen]

\* json.Unmarshal(val, &hostStats)
Unmarshal(doc) ==
    [Host |-> doc.host, IPs |-> doc.ips, Connections |-> doc.connections,
     RequestCount |-> doc.request_count, BlockedAttempts |-> doc.blocked_attempts,
     BytesTransferred |-> doc.bytes_transferred, Blocked |-> doc.blocked,
     LastSeen |-> doc.last_seen]

\* fmt.Sprintf("HOST:%s:HOUR:%s", host, now.Format("2006-01-02-15"))
HourKey(host, now) == <<"HOST", Colon>> \o host \o <<Colon, "HOUR", Colon>> \o FormatHour(now)

\* fmt.Sprintf("HOST:%s:DAY:%s", host, now.Format("2006-01-02"))
DayKey(host, now) == <<"HOST", Colon>> \o host \o <<Colon, "DAY", Colon>> \o FormatDay(now)

HourTTL == 15 * HoursPerDay
DayTTL == 90 * HoursPerDay

-----------------------------------------------------------------------------
(* internal/storage: the flush's write path.                               *)

\* updateHostStats with the request_count field left unmaintained (as the
\* accumulator's own literal leaves it)
updateHostStatsNoRequestCount(st, key, host, blocked, bytesTransferred, expiration, now) ==
    LET hostStats ==
            IF key \notin DOMAIN st
            THEN [Host |-> host, IPs |-> LookupHost(host), Connections |-> 1,
                  RequestCount |-> 0, BlockedAttempts |-> 0,
                  BytesTransferred |-> bytesTransferred, Blocked |-> blocked,
                  LastSeen |-> now]
            ELSE LET old == Unmarshal(st[key].data)
                 IN [old EXCEPT
                        !.Connections = @ + 1,
                        !.BytesTransferred = @ + bytesTransferred,
                        !.LastSeen = now,
                        !.BlockedAttempts = IF blocked THEN @ + 1 ELSE @,
                        !.Blocked = IF blocked THEN TRUE ELSE @]
        entry == [data |-> Marshal(hostStats), ttl |-> expiration]
    IN [k \in DOMAIN st \cup {key} |-> IF k = key THEN entry ELSE st[k]]

\* updateHostStats with "hostStats.Blocked = blocked" in place of the guarded
\* "hostStats.Blocked = true"
updateHostStatsBlockedOverwritten(st, key, host, blocked, bytesTransferred, expiration, now) ==
    LET hostStats ==
            IF key \notin DOMAIN st
            THEN [Host |-> host, IPs |-> LookupHost(host), Connections |-> 1,
                  RequestCount |-> 1, BlockedAttempts |-> 0,
                  BytesTransferred |-> bytesTransferred, Blocked |-> blocked,
                  LastSeen |-> now]
            ELSE LET old == Unmarshal(st[key].data)
                 IN [old EXCEPT
                        !.Connections = @ + 1,
                        !.RequestCount = @ + 1,
                        !.BytesTransferred = @ + bytesTransferred,
                        !.LastSeen = now,
                        !.BlockedAttempts = IF blocked THEN @ + 1 ELSE @,
                        !.Blocked = blocked]
        entry == [data |-> Marshal(hostStats), ttl |-> expiration]
    IN [k \in DOMAIN st \cup {key} |-> IF k = key THEN entry ELSE st[k]]

\* updateHostStats, when neither the GET nor the SET fails: the keyspace after
\* the read-modify-write of one key
updateHostStats(st, key, host, blocked, bytesTransferred, expiration, now) ==
    LET hostStats ==
            IF key \notin DOMAIN st
            THEN [Host |-> host, IPs |-> LookupHost(host), Connections |-> 1,
                  RequestCount |-> 1, BlockedAttempts |-> 0,
                  BytesTransferred |-> bytesTransferred, Blocked |-> blocked,
                  LastSeen |-> now]
            ELSE LET old == Unmarshal(st[key].data)
                 IN [old EXCEPT
                        !.Connections = @ + 1,
                        !.RequestCount = @ + 1,
                        !.BytesTransferred = @ + bytesTransferred,
                        !.LastSeen = now,
                        !.BlockedAttempts = IF blocked THEN @ + 1 ELSE @,
                        !.Blocked = IF blocked THEN TRUE ELSE @]
        entry == [data |-> Marshal(hostStats), ttl |-> expiration]
    IN [k \in DOMAIN st \cup {key} |-> IF k = key THEN entry ELSE st[k]]

\* what the store does to one RecordHostActivity call: every operation works,
\* or the hour key's GET/SET fails, or the day key's GET/SET fails
Outcomes == {"ok", "hourErr", "dayErr"}

\* RecordHostActivity passing the day key's expiration for the hour key too
RecordHostActivityOneTTL(st, host0, blocked, bytesTransferred, now, oc) ==
    IF host0 = <<>>
    THEN [store |-> st, err |-> TRUE, writes |-> <<>>]
    ELSE LET host == StripPort(host0)
             hourKey == HourKey(host, now)
             dayKey == DayKey(host, now)
             st1 == updateHostStats(st, hourKey, host, blocked, bytesTransferred,
                                    DayTTL, now)
             st2 == updateHostStats(st1, dayKey, host, blocked, bytesTransferred,
                                    DayTTL, now)
         IN IF oc = "hourErr"
            THEN [store |-> st, err |-> TRUE, writes |-> <<>>]
            ELSE IF oc = "dayErr"
                 THEN [store |-> st1, err |-> TRUE, writes |-> <<hourKey>>]
                 ELSE [store |-> st2, err |-> FALSE, writes |-> <<hourKey, dayKey>>]

\* RecordHostActivity: the keyspace after the call, the error it returns and
\* the keys it wrote
RecordHostActivity(st, host0, blocked, bytesTransferred, now, oc) ==
    IF host0 = <<>>
    THEN [store |-> st, err |-> TRUE, writes |-> <<>>]
    ELSE LET host == StripPort(host0)
             hourKey == HourKey(host, now)
             dayKey == DayKey(host, now)
             st1 == updateHostStats(st, hourKey, host, blocked, bytesTransferred,
                                    HourTTL, now)
             st2 == updateHostStats(st1, dayKey, host, blocked, bytesTransferred,
                                    DayTTL, now)
         IN IF oc = "hourErr"
            THEN [store |-> st, err |-> TRUE, writes |-> <<>>]
            ELSE IF oc = "dayErr"
                 THEN [store |-> st1, err |-> TRUE, writes |-> <<hourKey>>]
                 ELSE [store |-> st2, err |-> FALSE, writes |-> <<hourKey, dayKey>>]

-----------------------------------------------------------------------------
(* internal/geo: host strings, IP addresses and the private ranges.        *)

Dot == "."
Slash == "/"
LBracket == "["
RBracket == "]"

\* the decimal numerals of the addresses and prefix lengths below
DecimalValue ==
    ("0" :> 0) @@ ("1" :> 1) @@ ("7" :> 7) @@ ("8" :> 8) @@ ("10" :> 10)
    @@ ("12" :> 12) @@ ("16" :> 16) @@ ("31" :> 31) @@ ("32" :> 32)
    @@ ("127" :> 127) @@ ("128" :> 128) @@ ("168" :> 168) @@ ("169" :> 169)
    @@ ("172" :> 172) @@ ("192" :> 192) @@ ("254" :> 254) @@ ("443" :> 443)
    @@ ("8080" :> 8080)

\* the hexadecimal numerals of the IPv6 groups below
HexValue ==
    ("0" :> 0) @@ ("1" :> 1) @@ ("2001" :> 8193) @@ ("fbff" :> 64511)
    @@ ("fc00" :> 64512) @@ ("fdff" :> 65023) @@ ("fe00" :> 65024)
    @@ ("fe80" :> 65152) @@ ("febf" :> 65215) @@ ("fec0" :> 65216)
    @@ ("ffff" :> 65535)

Zeros(n) == [i \in 1..n |-> 0]

\* the dotted-quad form: four decimal bytes, or nothing
ParseIPv4(s) ==
    LET parts == Split(s, Dot)
    IN IF /\ Len(parts) = 4
          /\ \A i \in 1..4 : /\ Len(parts[i]) = 1
                             /\ parts[i][1] \in DOMAIN DecimalValue
                             /\ DecimalValue[parts[i][1]] <= 255
       THEN [ok |-> TRUE, bytes |-> [i \in 1..4 |-> DecimalValue[parts[i][1]]]]
       ELSE [ok |-> FALSE, bytes |-> <<>>]

\* the two bytes of each 16-bit group, in order
RECURSIVE GroupBytes(_)
GroupBytes(groups) ==
    IF groups = <<>> THEN <<>>
    ELSE <<Head(groups) \div 256, Head(groups) % 256>> \o GroupBytes(Tail(groups))

\* the 16-bit groups a run of IPv6 parts stands for: each part one hexadecimal
\* group, or a closing dotted quad two groups; an empty part (the place of
\* "::") stands for none
RECURSIVE GroupsOf(_)
GroupsOf(parts) ==
    IF parts = <<>> THEN <<>>
    ELSE LET v4 == ParseIPv4(Head(parts))
         IN (IF Head(parts) = <<>> THEN <<>>
             ELSE IF Len(parts) = 1 /\ v4.ok
                  THEN <<v4.bytes[1] * 256 + v4.bytes[2],
                         v4.bytes[3] * 256 + v4.bytes[4]>>
                  ELSE <<HexValue[Head(parts)[1]]>>)
            \o GroupsOf(Tail(parts))

\* the colon form: hexadecimal groups, at most one "::", optionally ending in
\* a dotted quad
ParseIPv6(s) ==
    LET fail == [ok |-> FALSE, bytes |-> <<>>]
        \* the parts without the empty part a leading or closing "::" adds
        trimmed(raw) ==
            LET p1 == IF Len(raw) >= 2 /\ raw[1] = <<>> /\ raw[2] = <<>>
                      THEN Tail(raw) ELSE raw
            IN IF Len(p1) >= 2 /\ p1[Len(p1)] = <<>> /\ p1[Len(p1) - 1] = <<>>
               THEN SubSeq(p1, 1, Len(p1) - 1) ELSE p1
        endsOK(raw) ==
            /\ Len(raw) >= 2
            /\ raw[1] # <<>> \/ raw[2] = <<>>
            /\ raw[Len(raw)] # <<>> \/ raw[Len(raw) - 1] = <<>>
        filled(parts, gaps, count) ==
            IF gaps = {}
            THEN IF count = 8 THEN [ok |-> TRUE, bytes |-> GroupBytes(GroupsOf(parts))]
                 ELSE fail
            ELSE IF count <= 7
                 THEN LET gap == CHOOSE i \in gaps : TRUE
                      IN [ok |-> TRUE,
                          bytes |-> GroupBytes(GroupsOf(SubSeq(parts, 1, gap - 1))
                                               \o Zeros(8 - count)
                                               \o GroupsOf(SubSeq(parts, gap + 1,
                                                                  Len(parts))))]
                 ELSE fail
        decoded(parts) ==
            IF /\ Cardinality({i \in 1..Len(parts) : parts[i] = <<>>}) <= 1
               /\ \A i \in 1..Len(parts) :
                     \/ parts[i] = <<>>
                     \/ Len(parts[i]) = 1 /\ parts[i][1] \in DOMAIN HexValue
                     \/ i = Len(parts) /\ ParseIPv4(parts[i]).ok
            THEN filled(parts, {i \in 1..Len(parts) : parts[i] = <<>>},
                        Len(GroupsOf(parts)))
            ELSE fail
        parsed(raw) == IF endsOK(raw) THEN decoded(trimmed(raw)) ELSE fail
    IN parsed(Split(s, Colon))

\* the 16-byte form net.ParseIP gives an IPv4 address
V4InV6(b) == Zeros(10) \o <<255, 255>> \o b

\* net.ParseIP: the 16 bytes of the address, or nil
ParseIP(s) ==
    LET mapped(v4) == [ok |-> TRUE, bytes |-> V4InV6(v4.bytes)]
    IN IF ParseIPv4(s).ok THEN mapped(ParseIPv4(s))
       ELSE IF \E i \in 1..Len(s) : s[i] = Colon THEN ParseIPv6(s)
       ELSE [ok |-> FALSE, bytes |-> <<>>]

\* IP.To4: the four bytes of an IPv4 or IPv4-mapped address, else the address
To4(b) ==
    IF Len(b) = 16 /\ SubSeq(b, 1, 12) = V4InV6(<<>>) THEN SubSeq(b, 13, 16) ELSE b

\* net.ParseCIDR: the network's address (4 or 16 bytes) and its prefix length
ParseCIDR(s) ==
    LET fail == [ok |-> FALSE, ip |-> <<>>, prefix |-> 0]
        network(ip, bits) ==
            IF /\ ip.ok /\ Len(bits) = 1 /\ bits[1] \in DOMAIN DecimalValue
               /\ DecimalValue[bits[1]] <= 8 * Len(To4(ip.bytes))
            THEN [ok |-> TRUE, ip |-> To4(ip.bytes), prefix |-> DecimalValue[bits[1]]]
            ELSE fail
        cut(i) == IF i = 0 THEN fail
                  ELSE network(ParseIP(SubSeq(s, 1, i - 1)), SubSeq(s, i + 1, Len(s)))
    IN cut(LastIndex(s, Slash))

Pow2(n) == IF n = 0 THEN 1 ELSE IF n = 1 THEN 2 ELSE IF n = 2 THEN 4
           ELSE IF n = 3 THEN 8 ELSE IF n = 4 THEN 16 ELSE IF n = 5 THEN 32
           ELSE IF n = 6 THEN 64 ELSE IF n = 7 THEN 128 ELSE 256

\* IPNet.Contains: equal under the mask, byte by byte
Contains(ipNet, b) ==
    LET ip == To4(b)
        maskBits(i) == IF ipNet.prefix >= 8 * i THEN 8
                       ELSE IF ipNet.prefix <= 8 * (i - 1) THEN 0
                       ELSE ipNet.prefix - 8 * (i - 1)
    IN /\ Len(ip) = Len(ipNet.ip)
       /\ \A i \in 1..Len(ip) :
             ip[i] \div Pow2(8 - maskBits(i)) = ipNet.ip[i] \div Pow2(8 - maskBits(i))

privateIPBlocks ==
    << <<"127", Dot, "0", Dot, "0", Dot, "0", Slash, "8">>,
       <<"10", Dot, "0", Dot, "0", Dot, "0", Slash, "8">>,
       <<"172", Dot, "16", Dot, "0", Dot, "0", Slash, "12">>,
       <<"192", Dot, "168", Dot, "0", Dot, "0", Slash, "16">>,
       <<"169", Dot, "254", Dot, "0", Dot, "0", Slash, "16">>,
       <<Colon, Colon, "1", Slash, "128">>,
       <<"fc00", Colon, Colon, Slash, "7">>,
       <<"fe80", Colon, Colon, Slash, "10">> >>

\* isPrivateIP with the 172.16.0.0/12 block read as a /16
isPrivateIPNarrow(ip) ==
    LET blocks == [privateIPBlocks EXCEPT
                      ![3] = <<"172", Dot, "16", Dot, "0", Dot, "0", Slash, "16">>]
        within(ipNet, parsedIP) == ipNet.ok /\ Contains(ipNet, parsedIP.bytes)
        listed(parsedIP) ==
            /\ parsedIP.ok
            /\ \E i \in 1..Len(blocks) : within(ParseCIDR(blocks[i]), parsedIP)
    IN listed(ParseIP(ip))

isPrivateIP(ip) ==
    LET within(ipNet, parsedIP) == ipNet.ok /\ Contains(ipNet, parsedIP.bytes)
        listed(parsedIP) ==
            /\ parsedIP.ok
            /\ \E i \in 1..Len(privateIPBlocks) :
                  within(ParseCIDR(privateIPBlocks[i]), parsedIP)
    IN listed(ParseIP(ip))

\* net.SplitHostPort: the host in front of the last colon; an error when there
\* is no port, when an unbracketed host holds a colon, or on stray brackets
SplitHostPort(hostport) ==
    LET i == LastIndex(hostport, Colon)
        j == LastIndex(hostport, RBracket)
        fail == [err |-> TRUE, host |-> <<>>]
        hasBracket(s) == \E k \in 1..Len(s) : s[k] \in {LBracket, RBracket}
    IN IF i = 0 THEN fail
       ELSE IF hostport[1] = LBracket
            THEN IF j = 0 \/ j + 1 # i \/ hasBracket(SubSeq(hostport, 2, j - 1))
                 THEN fail
                 ELSE [err |-> FALSE, host |-> SubSeq(hostport, 2, j - 1)]
            ELSE IF \/ \E k \in 1..(i - 1) : hostport[k] = Colon
                    \/ hasBracket(hostport)
                 THEN fail
                 ELSE [err |-> FALSE, host |-> SubSeq(hostport, 1, i - 1)]

\* one goroutine of LookupAsync: where it stands in Lookup, the cache tier that
\* answered it, the ticks its upstream request has been in flight, and whether
\* that request started after the tick's instant (from the channel's buffer)
NewLookup(host) ==
    [host |-> host, pc |-> "start", tier |-> "none", age |-> 0, late |-> FALSE]

\* geo.RecordHostLocation
RecordHostLocation(host0) ==
    LET clean(split) == IF split.err THEN host0 ELSE split.host
        lookup(host) == IF isPrivateIP(host) THEN lookups
                        ELSE Append(lookups, NewLookup(host))
    IN /\ geoCalls' = geoCalls \cup {host0}
       /\ lookups' = IF ~geoEnabled THEN lookups
                     ELSE lookup(clean(SplitHostPort(host0)))

-----------------------------------------------------------------------------
(* internal/proxy: the accumulator.                                        *)

\* the history keeps the first MaxHist events; a longer run is marked
Overflow == <<[k |-> "MORE"]>>
Log(ev) == IF hist # Overflow /\ Len(hist) < MaxHist THEN Append(hist, ev) ELSE Overflow

\* updateStats without its "hostStats.BytesTransferred += bytes"
updateStatsLiveNoBytes(lv, host0, blocked, bytes, incrementConnections, now) ==
    LET host == StripPort(host0)
        hostStats == IF host \in DOMAIN lv
                     THEN lv[host]
                     ELSE NewHostStats(host, LookupHost(host), now)
        upd == [hostStats EXCEPT
                   !.Connections = IF incrementConnections THEN @ + 1 ELSE @,
                   !.BlockedAttempts =
                       IF blocked /\ incrementConnections THEN @ + 1 ELSE @,
                   !.Blocked = IF blocked THEN TRUE ELSE @]
    IN [h \in DOMAIN lv \cup {host} |-> IF h = host THEN upd ELSE lv[h]]

\* Server.updateStats: the accumulator after the call
updateStatsLive(lv, host0, blocked, bytes, incrementConnections, now) ==
    LET host == StripPort(host0)
        hostStats == IF host \in DOMAIN lv
                     THEN lv[host]
                     ELSE NewHostStats(host, LookupHost(host), now)
        upd == [hostStats EXCEPT
                   !.Connections = IF incrementConnections THEN @ + 1 ELSE @,
                   !.BytesTransferred = @ + bytes,
                   !.BlockedAttempts =
                       IF blocked /\ incrementConnections THEN @ + 1 ELSE @,
                   !.Blocked = IF blocked THEN TRUE ELSE @]
    IN [h \in DOMAIN lv \cup {host} |-> IF h = host THEN upd ELSE lv[h]]

\* Server.updateStats, with its call of geo.RecordHostLocation
updateStats(host, blocked, bytes, incrementConnections) ==
    /\ RecordHostLocation(StripPort(host))
    /\ live' = updateStatsLive(live, host, blocked, bytes, incrementConnections, clock)

\* the hosts a flush persists
Pending(lv) == {h \in DOMAIN lv : lv[h].Connections > 0 \/ lv[h].BlockedAttempts > 0}

\* the loop of saveStatsToRedis over the hosts (their keys are disjoint, so the
\* map's iteration order does not show in the result)
RECURSIVE persistAll(_, _, _, _, _)
persistAll(acc, lv, hosts, oc, now) ==
    IF hosts = {} THEN acc
    ELSE LET host == CHOOSE h \in hosts : TRUE
             r == RecordHostActivity(acc.store, host, lv[host].Blocked,
                                     lv[host].BytesTransferred, now, oc[host])
         IN persistAll([store |-> r.store,
                        failed |-> IF r.err THEN acc.failed \cup {host} ELSE acc.failed,
                        writes |-> acc.writes \o
                                   [i \in 1..Len(r.writes) |->
                                       [host |-> host, key |-> r.writes[i]]]],
                       lv, hosts \ {host}, oc, now)

\* the accumulator after a flush: LastSeen is stamped on every persisted host,
\* the three counters are reset where RecordHostActivity returned no error
flushedLive(lv, failed, now) ==
    [h \in DOMAIN lv |->
        IF h \in Pending(lv)
        THEN IF h \in failed
             THEN [lv[h] EXCEPT !.LastSeen = now]
             ELSE [lv[h] EXCEPT !.LastSeen = now, !.Connections = 0,
                                !.BlockedAttempts = 0, !.BytesTransferred = 0]
        ELSE lv[h]]

-----------------------------------------------------------------------------
(* Handlers.                                                               *)

NoResp == [handler |-> "none"]
Empty == <<>>

\* what HandleHTTP answers and whether it called the upstream
\* oc: "upErr" client.Do fails, "copyErr" io.Copy fails, "ok"
HTTPOutcome(blocked, oc) ==
    IF blocked THEN [status |-> 403, body |-> "Blocked", outbound |-> FALSE]
    ELSE IF oc = "upErr"
         THEN [status |-> 502, body |-> "Error proxying request", outbound |-> TRUE]
         ELSE [status |-> 200, body |-> "upstream body", outbound |-> TRUE]

\* HandleHTTP with updateStats called although io.Copy returned an error
HandleHTTPCountsPartial(rhost, oc, n) ==
    LET host == StripPort(rhost)
        blocked == isBlocked(host)
        out == HTTPOutcome(blocked, oc)
    IN /\ running
       /\ nReq < MaxReq
       /\ nReq' = nReq + 1
       /\ IF blocked
          THEN updateStats(host, blocked, 0, FALSE)
          ELSE IF oc \in {"ok", "copyErr"}
               THEN updateStats(host, blocked, n, TRUE)
               ELSE UNCHANGED <<live, geoCalls, lookups>>
       /\ resp' = [handler |-> "HTTP", host |-> rhost, method |-> "GET",
                   status |-> out.status, body |-> out.body,
                   outbound |-> out.outbound]
       /\ hist' = Log([k |-> "HTTP", host |-> host, at |-> clock,
                       status |-> out.status,
                       oc |-> IF blocked THEN "blocked" ELSE oc,
                       n |-> IF ~blocked /\ oc = "ok" THEN n ELSE 0])
       /\ UNCHANGED <<geoVars, running, blockedRegs, store, clock, tunnels, nFlush, nQuery>>

HandleHTTP(rhost, oc, n) ==
    LET host == StripPort(rhost)
        blocked == isBlocked(host)
        out == HTTPOutcome(blocked, oc)
    IN /\ running
       /\ nReq < MaxReq
       /\ nReq' = nReq + 1
       /\ IF blocked
          THEN updateStats(host, blocked, 0, FALSE)
          ELSE IF oc = "ok"
               THEN updateStats(host, blocked, n, TRUE)
               ELSE UNCHANGED <<live, geoCalls, lookups>>
       /\ resp' = [handler |-> "HTTP", host |-> rhost, method |-> "GET",
                   status |-> out.status, body |-> out.body,
                   outbound |-> out.outbound]
       /\ hist' = Log([k |-> "HTTP", host |-> host, at |-> clock,
                       status |-> out.status,
                       oc |-> IF blocked THEN "blocked" ELSE oc,
                       n |-> IF ~blocked /\ oc = "ok" THEN n ELSE 0])
       /\ UNCHANGED <<geoVars, running, blockedRegs, store, clock, tunnels, nFlush, nQuery>>

\* HandleHTTPS with the dial moved in front of the blocked test
HTTPSOutcomeDialFirst(method, blocked, oc) ==
    IF method # "CONNECT"
    THEN [status |-> 405, body |-> "Method not allowed", outbound |-> FALSE]
    ELSE IF oc = "dialErr"
         THEN [status |-> 503, body |-> "dial error", outbound |-> TRUE]
         ELSE IF blocked
              THEN [status |-> 403, body |-> "Blocked", outbound |-> TRUE]
              ELSE IF oc = "noHijacker"
                   THEN [status |-> 500, body |-> "Hijacking not supported",
                         outbound |-> TRUE]
                   ELSE IF oc = "hijackErr"
                        THEN [status |-> 200, body |-> "hijack error",
                              outbound |-> TRUE]
                        ELSE [status |-> 200, body |-> "", outbound |-> TRUE]

\* what HandleHTTPS answers and whether it dialed the upstream
\* oc: "dialErr", "noHijacker", "hijackErr", "ok"
\* (a failed Hijack comes after WriteHeader(200): http.Error cannot change the
\* status any more)
HTTPSOutcome(method, blocked, oc) ==
    IF method # "CONNECT"
    THEN [status |-> 405, body |-> "Method not allowed", outbound |-> FALSE]
    ELSE IF blocked
         THEN [status |-> 403, body |-> "Blocked", outbound |-> FALSE]
         ELSE IF oc = "dialErr"
              THEN [status |-> 503, body |-> "dial error", outbound |-> TRUE]
              ELSE IF oc = "noHijacker"
                   THEN [status |-> 500, body |-> "Hijacking not supported",
                         outbound |-> TRUE]
                   ELSE IF oc = "hijackErr"
                        THEN [status |-> 200, body |-> "hijack error",
                              outbound |-> TRUE]
                        ELSE [status |-> 200, body |-> "", outbound |-> TRUE]

\* the connection pair HandleHTTPS leaves behind: the two transfer goroutines of
\* an established tunnel, or a dialed upstream connection nobody owns
NewTunnel(host, oc) ==
    [host |-> host,
     c2s |-> IF oc = "ok" THEN "run" ELSE "none",
     s2c |-> IF oc = "ok" THEN "run" ELSE "none",
     clientOpen |-> TRUE, destOpen |-> TRUE]

\* HandleHTTPS with the connection counted once the tunnel is established
\* instead of at the handshake
HandleHTTPSCountsEstablished(rhost, method, oc) ==
    LET host == rhost
        blocked == isBlocked(host)
        out == HTTPSOutcome(method, blocked, oc)
        dialed == method = "CONNECT" /\ ~blocked /\ oc # "dialErr"
    IN /\ running
       /\ nReq < MaxReq
       /\ nReq' = nReq + 1
       /\ updateStats(host, blocked, 0, dialed /\ oc = "ok")
       /\ tunnels' = IF dialed THEN Append(tunnels, NewTunnel(host, oc)) ELSE tunnels
       /\ resp' = [handler |-> "HTTPS", host |-> rhost, method |-> method,
                   status |-> out.status, body |-> out.body,
                   outbound |-> out.outbound]
       /\ hist' = Log([k |-> "HTTPS", host |-> StripPort(host), at |-> clock,
                       status |-> out.status,
                       oc |-> IF method # "CONNECT" THEN "notConnect"
                              ELSE IF blocked THEN "blocked" ELSE oc,
                       n |-> 0])
       /\ UNCHANGED <<geoVars, running, blockedRegs, store, clock, nFlush, nQuery>>

HandleHTTPS(rhost, method, oc) ==
    LET host == rhost
        blocked == isBlocked(host)
        out == HTTPSOutcome(method, blocked, oc)
        dialed == method = "CONNECT" /\ ~blocked /\ oc # "dialErr"
    IN /\ running
       /\ nReq < MaxReq
       /\ nReq' = nReq + 1
       /\ updateStats(host, blocked, 0, TRUE)
       /\ tunnels' = IF dialed THEN Append(tunnels, NewTunnel(host, oc)) ELSE tunnels
       /\ resp' = [handler |-> "HTTPS", host |-> rhost, method |-> method,
                   status |-> out.status, body |-> out.body,
                   outbound |-> out.outbound]
       /\ hist' = Log([k |-> "HTTPS", host |-> StripPort(host), at |-> clock,
                       status |-> out.status,
                       oc |-> IF method # "CONNECT" THEN "notConnect"
                              ELSE IF blocked THEN "blocked" ELSE oc,
                       n |-> 0])
       /\ UNCHANGED <<geoVars, running, blockedRegs, store, clock, nFlush, nQuery>>

\* Server.transfer with logCall = true (client to server): io.Copy returns
\* (n, err); a copy on connections the other goroutine closed returns an error
transferLog(i, n, err) ==
    /\ running
    /\ i \in 1..Len(tunnels)
    /\ tunnels[i].c2s = "run"
    /\ (~tunnels[i].clientOpen \/ ~tunnels[i].destOpen) => err
    /\ IF err
       THEN updateStats(tunnels[i].host, FALSE, n, FALSE)
       ELSE UNCHANGED <<live, geoCalls, lookups>>
    /\ tunnels' = [tunnels EXCEPT ![i].c2s = "done", ![i].clientOpen = FALSE,
                                  ![i].destOpen = FALSE]
    /\ hist' = Log([k |-> "COPY", host |-> StripPort(tunnels[i].host), at |-> clock,
                    status |-> 0, oc |-> IF err THEN "err" ELSE "eof", n |-> n])
    /\ resp' = NoResp
    /\ UNCHANGED <<geoVars, running, blockedRegs, store, clock, nReq, nFlush, nQuery>>

\* transfer without its "defer dest.Close()": the copy closes only the
\* connection it read from
transferSilentKeepsDest(i) ==
    /\ running
    /\ i \in 1..Len(tunnels)
    /\ tunnels[i].s2c = "run"
    /\ tunnels' = [tunnels EXCEPT ![i].s2c = "done", ![i].destOpen = FALSE]
    /\ resp' = NoResp
    /\ UNCHANGED <<geoVars, running, blockedRegs, live, store, clock, geoCalls, lookups, hist,
                   nReq, nFlush, nQuery>>

\* Server.transfer with logCall = false (server to client): silent
transferSilent(i) ==
    /\ running
    /\ i \in 1..Len(tunnels)
    /\ tunnels[i].s2c = "run"
    /\ tunnels' = [tunnels EXCEPT ![i].s2c = "done", ![i].clientOpen = FALSE,
                                  ![i].destOpen = FALSE]
    /\ resp' = NoResp
    /\ UNCHANGED <<geoVars, running, blockedRegs, live, store, clock, geoCalls, lookups, hist,
                   nReq, nFlush, nQuery>>

\* saveStatsToRedis with "return" in place of "continue": the cycle ends at the
\* first host whose RecordHostActivity fails
saveStatsToRedisReturnsOnError ==
    /\ running
    /\ nFlush < MaxFlush
    /\ nFlush' = nFlush + 1
    /\ \E oc \in [Pending(live) -> Outcomes] :
          LET bad == {h \in Pending(live) : oc[h] # "ok"}
              r == persistAll([store |-> store, failed |-> {}, writes |-> <<>>],
                              live,
                              IF bad = {} THEN Pending(live)
                              ELSE {CHOOSE h \in bad : TRUE},
                              oc, clock)
          IN /\ store' = r.store
             /\ live' = [h \in DOMAIN live |->
                            IF h \in Pending(live) /\ (bad = {} \/ h \in bad)
                            THEN flushedLive(live, r.failed, clock)[h]
                            ELSE live[h]]
             /\ hist' = Log([k |-> "FLUSH", host |-> Empty, at |-> clock,
                             status |-> 0,
                             oc |-> IF r.failed = {} THEN "ok" ELSE "failed",
                             n |-> 0])
             /\ resp' = [handler |-> "flush", at |-> clock, pre |-> live,
                         stored |-> store, failed |-> r.failed, writes |-> r.writes]
    /\ UNCHANGED <<geoVars, running, blockedRegs, clock, tunnels, geoCalls, lookups, nReq, nQuery>>

\* one cycle of periodicStatsSave: saveStatsToRedis under the writer lock

saveStatsToRedis ==
    /\ running
    /\ nFlush < MaxFlush
    /\ nFlush' = nFlush + 1
    /\ \E oc \in [Pending(live) -> Outcomes] :
          LET r == persistAll([store |-> store, failed |-> {}, writes |-> <<>>],
                              live, Pending(live), oc, clock)
          IN /\ store' = r.store
             /\ live' = flushedLive(live, r.failed, clock)
             /\ hist' = Log([k |-> "FLUSH", host |-> Empty, at |-> clock,
                             status |-> 0,
                             oc |-> IF r.failed = {} THEN "ok" ELSE "failed",
                             n |-> 0])
             /\ resp' = [handler |-> "flush", at |-> clock, pre |-> live,
                         stored |-> store, failed |-> r.failed, writes |-> r.writes]
    /\ UNCHANGED <<geoVars, running, blockedRegs, clock, tunnels, geoCalls, lookups, nReq, nQuery>>

\* the wall clock reaches the next hour
Tick ==
    /\ clock < MaxClock
    /\ clock' = clock + 1
    /\ resp' = NoResp
    /\ UNCHANGED <<geoVars, running, blockedRegs, live, store, tunnels, geoCalls, lookups, hist,
                   nReq, nFlush, nQuery>>

\* main on SIGINT or SIGTERM: geo.Shutdown() when geolocation is enabled (the
\* ticker is stopped), then os.Exit(0); the accumulator is left as it is
Shutdown ==
    /\ running
    /\ running' = FALSE
    /\ tickerOn' = IF geoEnabled THEN FALSE ELSE tickerOn
    /\ resp' = [handler |-> "exit", pre |-> live, stored |-> store]
    /\ UNCHANGED <<geoEnabled, memCache, geoStore, tickC, recvq, blockedRegs, live,
                   store, clock, tunnels, geoCalls, lookups, hist, nReq, nFlush,
                   nQuery>>

\* the process is started again after an exit: NewServer builds an empty
\* accumulator and loads the blocklist file as it is now; the connections of
\* the old process are gone, the Redis keyspace is kept
NewServer(list) ==
    /\ ~running
    /\ running' = TRUE
    /\ blockedRegs' = list
    /\ live' = <<>>
    /\ tunnels' = <<>>
    /\ resp' = NoResp
    /\ UNCHANGED <<geoVars, store, clock, geoCalls, lookups, hist, nReq, nFlush,
                   nQuery>>

-----------------------------------------------------------------------------
(* internal/geo: the three-tier lookup and its rate limiter.               *)

\* http.Client{Timeout: 2 * time.Second}, in ticks of the one-second ticker
HTTPTimeout == 2

\* SETEX geo:<host> 86400*7
GeoTTL == 86400 * 7

\* the receiver that discards unused ticks (the other receivers are the
\* positions of the goroutines in lookups)
Drainer == 0

\* what get.geojs.io answers for a host, and lookupGeoJS's conversion of it
GeoJSResponse(host) ==
    [ip |-> host, country_code |-> "US", country |-> "United States",
     city |-> "Mountain View"]
ToGeoData(r) ==
    [CountryCode |-> r.country_code, CountryName |-> r.country, City |-> r.city]

\* json.Marshal / json.Unmarshal of a GeoData
MarshalGeo(g) == [country_code |-> g.CountryCode, country |-> g.CountryName, city |-> g.City]
UnmarshalGeo(d) == [CountryCode |-> d.country_code, CountryName |-> d.country, City |-> d.city]

\* lru.Cache: Get moves the entry to the recent end; Add replaces or appends
\* and evicts the least recently used entry beyond the capacity
lruHas(c, host) == \E i \in 1..Len(c) : c[i].host = host
lruWithout(c, host) == SelectSeq(c, LAMBDA e : e.host # host)
lruGet(c, host) ==
    IF lruHas(c, host)
    THEN lruWithout(c, host) \o SelectSeq(c, LAMBDA e : e.host = host)
    ELSE c
lruAdd(c, host, data, size) ==
    LET c1 == Append(lruWithout(c, host), [host |-> host, data |-> data])
    IN IF Len(c1) > size THEN Tail(c1) ELSE c1

\* a proxy request whose updateStats hands its host to the geo package
GeoRequest(host) ==
    /\ running
    /\ nReq < MaxGeoReq
    /\ nReq' = nReq + 1
    /\ RecordHostLocation(host)
    /\ resp' = NoResp
    /\ UNCHANGED <<geoVars, running, blockedRegs, live, store, clock, tunnels, hist,
                   nFlush, nQuery>>

\* GeoCache.Lookup, the memory tier
Lookup(i) ==
    /\ running
    /\ i \in 1..Len(lookups)
    /\ lookups[i].pc = "start"
    /\ IF lruHas(memCache, lookups[i].host)
       THEN /\ memCache' = lruGet(memCache, lookups[i].host)
            /\ lookups' = [lookups EXCEPT ![i].pc = "done", ![i].tier = "memory"]
       ELSE /\ lookups' = [lookups EXCEPT ![i].pc = "redis"]
            /\ UNCHANGED memCache
    /\ resp' = NoResp
    /\ UNCHANGED <<geoEnabled, geoStore, tickC, recvq, tickerOn, running, blockedRegs,
                   live, store, clock, tunnels, geoCalls, hist, nReq, nFlush, nQuery>>

\* Lookup without its "g.memCache.Add(host, data)" on a Redis hit
getFromRedisNoAdd(i, err) ==
    /\ running
    /\ i \in 1..Len(lookups)
    /\ lookups[i].pc = "redis"
    /\ ~tickerOn => err
    /\ IF ~err /\ lookups[i].host \in DOMAIN geoStore
       THEN lookups' = [lookups EXCEPT ![i].pc = "done", ![i].tier = "redis"]
       ELSE lookups' = [lookups EXCEPT ![i].pc = "token"]
    /\ resp' = NoResp
    /\ UNCHANGED <<geoEnabled, memCache, geoStore, tickC, recvq, tickerOn, running,
                   blockedRegs, live, store, clock, tunnels, geoCalls, hist, nReq,
                   nFlush, nQuery>>

\* GeoCache.Lookup, the Redis tier: getFromRedis fails (and the lookup goes on
\* to the upstream), finds the record, or finds nothing; on a pool that Close
\* has closed every operation fails
getFromRedis(i, err) ==
    /\ running
    /\ i \in 1..Len(lookups)
    /\ lookups[i].pc = "redis"
    /\ ~tickerOn => err
    /\ IF ~err /\ lookups[i].host \in DOMAIN geoStore
       THEN /\ memCache' = lruAdd(memCache, lookups[i].host,
                                  UnmarshalGeo(geoStore[lookups[i].host].data),
                                  GeoCacheSize)
            /\ lookups' = [lookups EXCEPT ![i].pc = "done", ![i].tier = "redis"]
       ELSE /\ lookups' = [lookups EXCEPT ![i].pc = "token"]
            /\ UNCHANGED memCache
    /\ resp' = NoResp
    /\ UNCHANGED <<geoEnabled, geoStore, tickC, recvq, tickerOn, running, blockedRegs,
                   live, store, clock, tunnels, geoCalls, hist, nReq, nFlush, nQuery>>

\* lookupGeoJS, "<-g.rateLimiter.C": a buffered tick is taken at once and the
\* GET goes out, else the goroutine parks in the channel's receive queue
lookupGeoJS(i) ==
    /\ running
    /\ i \in 1..Len(lookups)
    /\ lookups[i].pc = "token"
    /\ IF tickC > 0
       THEN /\ tickC' = tickC - 1
            /\ lookups' = [lookups EXCEPT ![i].pc = "http", ![i].tier = "upstream",
                                          ![i].late = TRUE]
            /\ UNCHANGED recvq
       ELSE /\ recvq' = Append(recvq, i)
            /\ lookups' = [lookups EXCEPT ![i].pc = "wait"]
            /\ UNCHANGED tickC
    /\ resp' = NoResp
    /\ UNCHANGED <<geoEnabled, memCache, geoStore, tickerOn, running, blockedRegs,
                   live, store, clock, tunnels, geoCalls, hist, nReq, nFlush, nQuery>>

\* the goroutine of NewGeoCache, "for range rateLimiter.C {}": it takes a
\* buffered tick and comes back, or parks in the receive queue
drainTicks ==
    /\ running
    /\ geoEnabled
    /\ \A j \in 1..Len(recvq) : recvq[j] # Drainer
    /\ IF tickC > 0
       THEN tickC' = tickC - 1 /\ UNCHANGED recvq
       ELSE recvq' = Append(recvq, Drainer) /\ UNCHANGED tickC
    /\ resp' = NoResp
    /\ UNCHANGED <<geoEnabled, memCache, geoStore, tickerOn, running, blockedRegs,
                   live, store, clock, tunnels, geoCalls, lookups, hist,
                   nReq, nFlush, nQuery>>

\* a channel that wakes the drainer whenever it is parked
wakesDrainerFirst(q) ==
    IF \E j \in 1..Len(q) : q[j] = Drainer
    THEN CHOOSE j \in 1..Len(q) : q[j] = Drainer
    ELSE 1

\* which parked receiver a send on the channel wakes: the one parked longest
wakes(q) == 1

\* a second passes and the ticker sends, without blocking: a parked receiver
\* gets the tick (a lookup's GET goes out), else the tick is buffered, else it
\* is dropped.  An upstream request cannot be in flight beyond its timeout.
rateLimiterTick ==
    /\ running
    /\ tickerOn
    /\ \A i \in 1..Len(lookups) :
          lookups[i].pc = "http" =>
              lookups[i].age + (IF lookups[i].late THEN 0 ELSE 1) < HTTPTimeout
    /\ LET aged == [i \in 1..Len(lookups) |->
                       IF lookups[i].pc = "http"
                       THEN [lookups[i] EXCEPT !.age = @ + 1]
                       ELSE lookups[i]]
           w == wakes(recvq)
           r == recvq[w]
           rest == SubSeq(recvq, 1, w - 1) \o SubSeq(recvq, w + 1, Len(recvq))
       IN IF recvq # <<>>
          THEN /\ recvq' = rest
               /\ lookups' = IF r = Drainer THEN aged
                             ELSE [aged EXCEPT ![r].pc = "http",
                                               ![r].tier = "upstream"]
               /\ UNCHANGED tickC
          ELSE /\ tickC' = 1
               /\ lookups' = aged
               /\ UNCHANGED recvq
    /\ resp' = NoResp
    /\ UNCHANGED <<geoEnabled, memCache, geoStore, tickerOn, running, blockedRegs,
                   live, store, clock, tunnels, geoCalls, hist, nReq, nFlush, nQuery>>

\* Lookup storing an empty record in the memory cache when lookupGeoJS fails
GeoJSReplyCachesFailure(i, ok) ==
    /\ running
    /\ i \in 1..Len(lookups)
    /\ lookups[i].pc = "http"
    /\ IF ok
       THEN /\ memCache' = lruAdd(memCache, lookups[i].host,
                                  ToGeoData(GeoJSResponse(lookups[i].host)),
                                  GeoCacheSize)
            /\ lookups' = [lookups EXCEPT ![i].pc = "save"]
       ELSE /\ memCache' = lruAdd(memCache, lookups[i].host,
                                  [CountryCode |-> "", CountryName |-> "", City |-> ""],
                                  GeoCacheSize)
            /\ lookups' = [lookups EXCEPT ![i].pc = "done", ![i].tier = "failed"]
    /\ resp' = NoResp
    /\ UNCHANGED <<geoEnabled, geoStore, tickC, recvq, tickerOn, running, blockedRegs,
                   live, store, clock, tunnels, geoCalls, hist, nReq, nFlush, nQuery>>

\* the upstream answers (or the request fails or times out): on success both
\* caches are filled, the memory one now and Redis by a goroutine of its own
GeoJSReply(i, ok) ==
    /\ running
    /\ i \in 1..Len(lookups)
    /\ lookups[i].pc = "http"
    /\ IF ok
       THEN /\ memCache' = lruAdd(memCache, lookups[i].host,
                                  ToGeoData(GeoJSResponse(lookups[i].host)),
                                  GeoCacheSize)
            /\ lookups' = [lookups EXCEPT ![i].pc = "save"]
       ELSE /\ lookups' = [lookups EXCEPT ![i].pc = "done", ![i].tier = "failed"]
            /\ UNCHANGED memCache
    /\ resp' = NoResp
    /\ UNCHANGED <<geoEnabled, geoStore, tickC, recvq, tickerOn, running, blockedRegs,
                   live, store, clock, tunnels, geoCalls, hist, nReq, nFlush, nQuery>>

\* saveToRedis, in the goroutine Lookup starts for it
saveToRedis(i, err) ==
    /\ running
    /\ i \in 1..Len(lookups)
    /\ lookups[i].pc = "save"
    /\ ~tickerOn => err
    /\ lookups' = [lookups EXCEPT ![i].pc = "done"]
    /\ geoStore' =
          IF err THEN geoStore
          ELSE LET entry == [data |-> MarshalGeo(ToGeoData(GeoJSResponse(lookups[i].host))),
                             ttl |-> GeoTTL]
               IN [h \in DOMAIN geoStore \cup {lookups[i].host} |->
                      IF h = lookups[i].host THEN entry ELSE geoStore[h]]
    /\ resp' = NoResp
    /\ UNCHANGED <<geoEnabled, memCache, tickC, recvq, tickerOn, running, blockedRegs,
                   live, store, clock, tunnels, geoCalls, hist, nReq, nFlush, nQuery>>

\* geo.Shutdown, GeoCache.Close: rateLimiter.Stop() and redisPool.Close().
\* Stop sends no more ticks; it does not close the channel, so a tick in the
\* buffer stays there and the parked receivers stay parked
Close ==
    /\ running
    /\ geoEnabled
    /\ tickerOn
    /\ tickerOn' = FALSE
    /\ resp' = [handler |-> "close"]
    /\ UNCHANGED <<geoEnabled, memCache, geoStore, tickC, recvq, running, blockedRegs,
                   live, store, clock, tunnels, geoCalls, lookups, hist, nReq,
                   nFlush, nQuery>>

-----------------------------------------------------------------------------
(* internal/storage and internal/api: the read path.                       *)

\* the date of one scanned key as GetDailyStats extracts it, or the reason
\* the key is skipped
KeyDate(key, granularity) ==
    LET parts == Split(key, Colon)
    IN IF Len(parts) # 4 THEN [err |-> TRUE, t |-> 0]
       ELSE IF granularity = "hour"
            THEN LET hourParts == Split(parts[4], Dash)
                 IN IF Len(hourParts) # 4 THEN [err |-> TRUE, t |-> 0]
                    ELSE ParseDay(hourParts[1] \o <<Dash>> \o hourParts[2]
                                  \o <<Dash>> \o hourParts[3])
            ELSE ParseDay(parts[4])

\* the range test of GetDailyStats on a parsed key date
InRange(keyDate, fromDate, toDate) == ~(keyDate < fromDate \/ keyDate > toDate)

\* GetDailyStats; unreadable: the keys whose GET or Unmarshal fails
GetDailyStats(st, fromDate, toDate, hostFilter, granularity0, keysErr, unreadable) ==
    LET granularity == IF granularity0 = "" THEN "day" ELSE granularity0
        kind == IF granularity = "hour" THEN "HOUR" ELSE "DAY"
        pattern ==
            IF hostFilter # <<>>
            THEN <<"HOST", Colon, Star>> \o hostFilter \o <<Star, Colon, kind, Colon, Star>>
            ELSE <<"HOST", Colon, Star, Colon, kind, Colon, Star>>
        keys == {k \in DOMAIN st : GlobMatch(pattern, k)}
        filteredKeys ==
            {k \in keys :
                /\ ~KeyDate(k, granularity).err
                /\ InRange(KeyDate(k, granularity).t, fromDate, toDate)
                /\ k \notin unreadable}
    IN IF keysErr
       THEN [err |-> TRUE, keys |-> {}, records |-> <<>>]
       ELSE [err |-> FALSE, keys |-> filteredKeys,
             records |-> [k \in filteredKeys |-> Unmarshal(st[k].data)]]

\* sendJSONResponse: the CORS headers, the status and the body
sendJSONResponse(req, status, error, keys, records) ==
    [handler |-> "daily", req |-> req, status |-> status, cors |-> TRUE,
     error |-> error, keys |-> keys, records |-> records]

\* Handler.HandleDailyStats
DailyResponse(st, req) ==
    LET from == ParseDay(req.from_date)
        to == ParseDay(req.to_date)
        granularity == IF req.granularity # "" THEN req.granularity ELSE "day"
        got == GetDailyStats(st, from.t, to.t + HoursPerDay, req.host_filter,
                             granularity, req.keysErr, req.unreadable)
    IN IF req.method \notin {"GET", "POST"}
       THEN [handler |-> "daily", req |-> req, status |-> 405, cors |-> FALSE,
             error |-> "Method not allowed", keys |-> {}, records |-> <<>>]
       ELSE IF req.method = "GET" /\ (req.from_date = <<>> \/ req.to_date = <<>>)
       THEN sendJSONResponse(req, 400, "Missing from_date or to_date parameters",
                             {}, <<>>)
       ELSE IF from.err
       THEN sendJSONResponse(req, 400, "Invalid from_date format. Use YYYY-MM-DD",
                             {}, <<>>)
       ELSE IF to.err
       THEN sendJSONResponse(req, 400, "Invalid to_date format. Use YYYY-MM-DD",
                             {}, <<>>)
       ELSE IF granularity # "day" /\ granularity # "hour"
       THEN sendJSONResponse(req, 400, "Invalid granularity. Use 'day' or 'hour'",
                             {}, <<>>)
       ELSE IF got.err
       THEN sendJSONResponse(req, 500, "Failed to fetch data", {}, <<>>)
       ELSE sendJSONResponse(req, 200, "", got.keys, got.records)

\* the requests the daily endpoint is sent: well-formed GET queries, and one
\* request for each way of being refused or of failing
QueryDays == {FormatDay(0), FormatDay(HoursPerDay)}
DailyReq(m, f, t, hf, g, ke, un) ==
    [method |-> m, from_date |-> f, to_date |-> t, host_filter |-> hf,
     granularity |-> g, keysErr |-> ke, unreadable |-> un]
DailyRequests(st) ==
    {DailyReq("GET", f, t, hf, g, FALSE, {}) :
        f \in QueryDays, t \in QueryDays, hf \in {<<>>, <<"web">>}, g \in {"", "hour"}}
    \cup {DailyReq("POST", FormatDay(0), t, <<>>, "day", FALSE, {}) :
             t \in QueryDays \cup {<<>>}}
    \cup {DailyReq("GET", f, FormatDay(0), <<>>, "", FALSE, {}) : f \in {<<>>, <<"x">>}}
    \cup {DailyReq("DELETE", FormatDay(0), FormatDay(0), <<>>, "", FALSE, {})}
    \cup {DailyReq("GET", FormatDay(0), FormatDay(0), <<>>, "week", FALSE, {})}
    \cup {DailyReq("GET", FormatDay(0), FormatDay(0), <<>>, "", TRUE, {})}
    \cup {DailyReq("GET", FormatDay(0), FormatDay(HoursPerDay), <<>>, "", FALSE, {k}) :
             k \in DOMAIN st}

\* HandleDailyStats deleting the keys it could not read
HandleDailyStatsDeletesUnreadable(req) ==
    /\ running
    /\ nQuery < MaxQuery
    /\ nQuery' = nQuery + 1
    /\ resp' = DailyResponse(store, req)
    /\ store' = [k \in DOMAIN store \ req.unreadable |-> store[k]]
    /\ UNCHANGED <<geoVars, running, blockedRegs, live, clock, tunnels, geoCalls, lookups, hist,
                   nReq, nFlush>>

HandleDailyStats(req) ==
    /\ running
    /\ nQuery < MaxQuery
    /\ nQuery' = nQuery + 1
    /\ resp' = DailyResponse(store, req)
    /\ UNCHANGED <<geoVars, running, blockedRegs, live, store, clock, tunnels, geoCalls, lookups, hist,
                   nReq, nFlush>>

\* decimal numerals: the token at position n + 1 reads as n
DecStr == HourStr \o <<"24">>

\* strconv.Atoi on one numeral
Atoi(tok) ==
    IF \E n \in 1..Len(DecStr) : DecStr[n] = tok
    THEN [err |-> FALSE, n |-> (CHOOSE n \in 1..Len(DecStr) : DecStr[n] = tok) - 1]
    ELSE [err |-> TRUE, n |-> 0]

\* fmt.Sscanf(s, "%d", &v) on a zero v: the number read, 0 when nothing is read
Sscanf(s) ==
    IF Len(s) = 1 /\ ~Atoi(s[1]).err THEN Atoi(s[1]).n
    ELSE IF Len(s) = 2 /\ s[1] = Dash /\ ~Atoi(s[2]).err THEN 0 - Atoi(s[2]).n
    ELSE 0

\* GetHourlyStats with the lower end of the hour range excluded
GetHourlyStatsExclusive(st, date, fromHour, toHour, keysErr, unreadable) ==
    LET pattern == <<"HOST", Colon, Star, Colon, "HOUR", Colon>>
                   \o FormatDay(date) \o <<Dash, Star>>
        keys == {k \in DOMAIN st : GlobMatch(pattern, k)}
        hourOf(k) == Atoi(Split(Split(k, Colon)[4], Dash)[4][1])
        filteredKeys ==
            {k \in keys :
                /\ Len(Split(k, Colon)) = 4
                /\ Len(Split(Split(k, Colon)[4], Dash)) = 4
                /\ Len(Split(Split(k, Colon)[4], Dash)[4]) = 1
                /\ ~hourOf(k).err
                /\ ~(hourOf(k).n <= fromHour \/ hourOf(k).n > toHour)
                /\ k \notin unreadable}
    IN IF keysErr
       THEN [err |-> TRUE, keys |-> {}, records |-> <<>>]
       ELSE [err |-> FALSE, keys |-> filteredKeys,
             records |-> [k \in filteredKeys |-> Unmarshal(st[k].data)]]

\* GetHourlyStats; date is a parsed day, unreadable the keys whose GET or
\* Unmarshal fails
GetHourlyStats(st, date, fromHour, toHour, keysErr, unreadable) ==
    LET pattern == <<"HOST", Colon, Star, Colon, "HOUR", Colon>>
                   \o FormatDay(date) \o <<Dash, Star>>
        keys == {k \in DOMAIN st : GlobMatch(pattern, k)}
        hourOf(k) == Atoi(Split(Split(k, Colon)[4], Dash)[4][1])
        filteredKeys ==
            {k \in keys :
                /\ Len(Split(k, Colon)) = 4
                /\ Len(Split(Split(k, Colon)[4], Dash)) = 4
                /\ Len(Split(Split(k, Colon)[4], Dash)[4]) = 1
                /\ ~hourOf(k).err
                /\ ~(hourOf(k).n < fromHour \/ hourOf(k).n > toHour)
                /\ k \notin unreadable}
    IN IF keysErr
       THEN [err |-> TRUE, keys |-> {}, records |-> <<>>]
       ELSE [err |-> FALSE, keys |-> filteredKeys,
             records |-> [k \in filteredKeys |-> Unmarshal(st[k].data)]]

\* Handler.HandleHourlyStats; a GET carries its hours as query strings, a POST
\* as the integers of its JSON body
HourlyResponse(st, req) ==
    LET date == ParseDay(req.date)
        fromHour == IF req.method = "GET" THEN Sscanf(req.from_hour) ELSE req.FromHour
        toHour == IF req.method = "GET" THEN Sscanf(req.to_hour) ELSE req.ToHour
        got == GetHourlyStats(st, date.t, fromHour, toHour, req.keysErr, req.unreadable)
        send(status, error, keys, records) ==
            [sendJSONResponse(req, status, error, keys, records)
                EXCEPT !.handler = "hourly"]
    IN IF req.method \notin {"GET", "POST"}
       THEN [handler |-> "hourly", req |-> req, status |-> 405, cors |-> FALSE,
             error |-> "Method not allowed", keys |-> {}, records |-> <<>>]
       ELSE IF req.method = "GET"
               /\ (req.date = <<>> \/ req.from_hour = <<>> \/ req.to_hour = <<>>)
       THEN send(400, "Missing required parameters", {}, <<>>)
       ELSE IF req.method = "POST" /\ req.decodeErr
       THEN send(400, "Invalid request format", {}, <<>>)
       ELSE IF date.err
       THEN send(400, "Invalid date format. Use YYYY-MM-DD", {}, <<>>)
       ELSE IF fromHour < 0 \/ fromHour > 23 \/ toHour < 0 \/ toHour > 23
       THEN send(400, "Hours must be between 0 and 23", {}, <<>>)
       ELSE IF got.err
       THEN send(500, "Failed to fetch data", {}, <<>>)
       ELSE send(200, "", got.keys, got.records)

\* the requests the hourly endpoint is sent: well-formed queries (in-range,
\* empty-range and reversed), and one request for each way of being refused or
\* of failing
HourlyReq(m, d, fs, ts, fh, th, de, ke, un) ==
    [method |-> m, date |-> d, from_hour |-> fs, to_hour |-> ts,
     FromHour |-> fh, ToHour |-> th, decodeErr |-> de, keysErr |-> ke,
     unreadable |-> un]
HourlyRequests(st) ==
    {HourlyReq("GET", d, <<f>>, <<t>>, 0, 0, FALSE, FALSE, {}) :
        d \in QueryDays, f \in {"00", "10", "23"}, t \in {"00", "16", "23"}}
    \cup {HourlyReq("GET", FormatDay(0), f, <<"23">>, 0, 0, FALSE, FALSE, {}) :
             f \in {<<>>, <<"x">>, <<"24">>, <<Dash, "01">>}}
    \cup {HourlyReq("GET", <<"x">>, <<"00">>, <<"23">>, 0, 0, FALSE, FALSE, {})}
    \cup {HourlyReq("POST", FormatDay(0), <<>>, <<>>, fh, 23, de, FALSE, {}) :
             fh \in {0 - 1, 0, 23}, de \in BOOLEAN}
    \cup {HourlyReq("POST", FormatDay(0), <<>>, <<>>, 0, 24, FALSE, FALSE, {})}
    \cup {HourlyReq("DELETE", FormatDay(0), <<"00">>, <<"23">>, 0, 0, FALSE, FALSE, {})}
    \cup {HourlyReq("GET", FormatDay(0), <<"00">>, <<"23">>, 0, 0, FALSE, TRUE, {})}
    \cup {HourlyReq("GET", d, <<"00">>, <<"23">>, 0, 0, FALSE, FALSE, {k}) :
             d \in QueryDays, k \in DOMAIN st}

HandleHourlyStats(req) ==
    /\ running
    /\ nQuery < MaxQuery
    /\ nQuery' = nQuery + 1
    /\ resp' = HourlyResponse(store, req)
    /\ UNCHANGED <<geoVars, running, blockedRegs, live, store, clock, tunnels, geoCalls, lookups, hist,
                   nReq, nFlush>>

\* stat.LastSeen.Unix() * 1000, counted from the model's hour 0
MsPerHour == 3600000
UnixMilli(t) == t * MsPerHour

\* metrics.TransformHostStats: three points per record, in the order the map
\* happens to be iterated
RECURSIVE TransformHostStats(_)
TransformHostStats(records) ==
    IF DOMAIN records = {} THEN <<>>
    ELSE LET k == CHOOSE x \in DOMAIN records : TRUE
             stat == records[k]
             timestamp == UnixMilli(stat.LastSeen)
             rest == [x \in DOMAIN records \ {k} |-> records[x]]
         IN <<[timestamp |-> timestamp, value |-> stat.Connections,
               host |-> stat.Host, type |-> "connections"],
              [timestamp |-> timestamp, value |-> stat.BytesTransferred,
               host |-> stat.Host, type |-> "bytes"],
              [timestamp |-> timestamp, value |-> stat.BlockedAttempts,
               host |-> stat.Host, type |-> "blocked"]>>
            \o TransformHostStats(rest)

\* Handler.HandleMetrics at time now
MetricsResponse(st, now, keysErr) ==
    LET hourAgo == now - 1
        got == GetDailyStats(st, hourAgo, now, <<>>, "hour", keysErr, {})
    IN IF got.err
       THEN [handler |-> "metrics", status |-> 500, cors |-> FALSE,
             error |-> "Failed to fetch metrics", metrics |-> <<>>]
       ELSE [handler |-> "metrics", status |-> 200, cors |-> FALSE,
             error |-> "", metrics |-> TransformHostStats(got.records)]

HandleMetrics(keysErr) ==
    /\ running
    /\ nQuery < MaxQuery
    /\ nQuery' = nQuery + 1
    /\ resp' = MetricsResponse(store, clock, keysErr)
    /\ UNCHANGED <<geoVars, running, blockedRegs, live, store, clock, tunnels, geoCalls, lookups, hist,
                   nReq, nFlush>>

\* handleGeoAPI with getAllGeoData: every readable geo:<host> record
GeoAPIResponse(gs, method, keysErr) ==
    IF method # "GET"
    THEN [handler |-> "geo", status |-> 405, cors |-> FALSE,
          error |-> "Method not allowed", records |-> <<>>]
    ELSE IF ~geoEnabled
    THEN [handler |-> "geo", status |-> 500, cors |-> FALSE,
          error |-> "Geolocation system not initialized", records |-> <<>>]
    ELSE IF keysErr
    THEN [handler |-> "geo", status |-> 500, cors |-> FALSE,
          error |-> "Failed to get geolocation data", records |-> <<>>]
    ELSE [handler |-> "geo", status |-> 200, cors |-> FALSE, error |-> "",
          records |-> [h \in DOMAIN gs |-> UnmarshalGeo(gs[h].data)]]

\* GET /api/geo, registered once geo.Initialize has worked
handleGeoAPI(method, keysErr) ==
    /\ running
    /\ geoEnabled
    /\ nQuery < MaxQuery
    /\ nQuery' = nQuery + 1
    /\ resp' = GeoAPIResponse(geoStore, method, keysErr)
    /\ UNCHANGED <<geoVars, running, blockedRegs, live, store, clock, tunnels,
                   geoCalls, lookups, hist, nReq, nFlush>>

-----------------------------------------------------------------------------

\* NewServer: an empty accumulator, the blocklist loaded once; an empty keyspace
Init ==
    /\ blockedRegs \in BlockLists
    /\ live = <<>>
    /\ store = <<>>
    /\ clock = StartClock
    /\ tunnels = <<>>
    /\ geoCalls = {}
    /\ resp = NoResp
    /\ hist = <<>>
    /\ nReq = 0
    /\ nFlush = 0
    /\ nQuery = 0
    /\ running = TRUE
    /\ geoEnabled = FALSE
    /\ memCache = <<>>
    /\ geoStore = <<>>
    /\ lookups = <<>>
    /\ tickC = 0
    /\ recvq = <<>>
    /\ tickerOn = FALSE

Next ==
    \/ \E h \in HTTPHosts, oc \in {"upErr", "copyErr", "ok"}, n \in BodySizes :
          HandleHTTP(h, oc, n)
    \/ \E h \in ConnectHosts, m \in {"CONNECT", "GET"},
          oc \in {"dialErr", "noHijacker", "hijackErr", "ok"} :
          HandleHTTPS(h, m, oc)
    \/ \E i \in 1..Len(tunnels), n \in TunnelSizes, err \in BOOLEAN :
          transferLog(i, n, err)
    \/ \E i \in 1..Len(tunnels) : transferSilent(i)
    \/ saveStatsToRedis
    \/ Tick

Spec == Init /\ [][Next]_vars

\* the CONNECT listener and the copies of its tunnels
NextTunnel ==
    \/ \E h \in ConnectHosts, m \in {"CONNECT", "GET"},
          oc \in {"dialErr", "noHijacker", "hijackErr", "ok"} :
          HandleHTTPS(h, m, oc)
    \/ \E i \in 1..Len(tunnels), n \in TunnelSizes, err \in BOOLEAN :
          transferLog(i, n, err)
    \/ \E i \in 1..Len(tunnels) : transferSilent(i)
    \/ Tick

\* a copy whose source connection has been closed returns: the pending Read
\* fails with "use of closed network connection".  A copy between open
\* connections may wait for its peer for ever.
FairTunnel ==
    \A i \in 1..(MaxReq + 1) :
        /\ WF_vars((\E n \in TunnelSizes, err \in BOOLEAN : transferLog(i, n, err))
                   /\ ~tunnels[i].clientOpen)
        /\ WF_vars(transferSilent(i) /\ ~tunnels[i].destOpen)

SpecTunnel == Init /\ [][NextTunnel]_vars /\ FairTunnel

\* tunnels to a named host and to an IPv6 literal, their copies, and the flush
NextBytes ==
    \/ \E h \in ConnectHosts6, oc \in {"dialErr", "ok"} : HandleHTTPS(h, "CONNECT", oc)
    \/ \E i \in 1..Len(tunnels), n \in TunnelSizes, err \in BOOLEAN :
          transferLog(i, n, err)
    \/ \E i \in 1..Len(tunnels) : transferSilent(i)
    \/ saveStatsToRedis
    \/ Tick

SpecBytes == Init /\ [][NextBytes]_vars

\* the read API over the keyspace that plain-HTTP traffic and the flush build
NextAPI ==
    \/ \E h \in HTTPHosts, oc \in {"upErr", "copyErr", "ok"}, n \in BodySizes :
          HandleHTTP(h, oc, n)
    \/ saveStatsToRedis
    \/ Tick
    \/ \E req \in DailyRequests(store) : HandleDailyStats(req)
    \/ \E req \in HourlyRequests(store) : HandleHourlyStats(req)
    \/ \E keysErr \in BOOLEAN : HandleMetrics(keysErr)

SpecAPI == Init /\ [][NextAPI]_vars

\* the life of the process from start to exit, with plain-HTTP traffic
NextMain ==
    \/ \E h \in HTTPHosts, oc \in {"upErr", "copyErr", "ok"}, n \in BodySizes :
          HandleHTTP(h, oc, n)
    \/ saveStatsToRedis
    \/ Tick
    \/ Shutdown

SpecMain == Init /\ [][NextMain]_vars

\* both listeners, the flush timer and the exit of the process: a blocked
\* CONNECT and a proxied plain-HTTP request leave two hosts pending
NextFlush ==
    \/ \E h \in HTTPHosts, oc \in {"upErr", "copyErr", "ok"}, n \in BodySizes :
          HandleHTTP(h, oc, n)
    \/ \E h \in ConnectHosts : HandleHTTPS(h, "CONNECT", "dialErr")
    \/ saveStatsToRedis
    \/ Tick
    \/ Shutdown

\* the loop of periodicStatsSave takes its next tick and runs a cycle: the
\* step of saveStatsToRedis, told by the cycle count alone
periodicStatsSave == running /\ nFlush < MaxFlush /\ nFlush' = nFlush + 1

\* the ticker started by NewServer fires for as long as the process runs, and
\* nothing in the loop ends it
FairFlush == WF_nFlush(periodicStatsSave)

SpecFlush == Init /\ [][NextFlush]_vars /\ FairFlush

\* a server started an hour earlier, stopped and started again over the same
\* keyspace, with CONNECT requests whose dial fails
InitEarly ==
    /\ blockedRegs \in BlockLists
    /\ live = <<>>
    /\ store = <<>>
    /\ clock = StartClock - 1
    /\ tunnels = <<>>
    /\ geoCalls = {}
    /\ resp = NoResp
    /\ hist = <<>>
    /\ nReq = 0
    /\ nFlush = 0
    /\ nQuery = 0
    /\ running = TRUE
    /\ geoEnabled = FALSE
    /\ memCache = <<>>
    /\ geoStore = <<>>
    /\ lookups = <<>>
    /\ tickC = 0
    /\ recvq = <<>>
    /\ tickerOn = FALSE

NextRestart ==
    \/ \E h \in ConnectHosts : HandleHTTPS(h, "CONNECT", "dialErr")
    \/ saveStatsToRedis
    \/ Tick
    \/ Shutdown
    \/ \E list \in BlockLists : NewServer(list)

SpecRestart == InitEarly /\ [][NextRestart]_vars

\* geo.Initialize: the cache is set up and its ticker and drainer run; Redis
\* may hold records of an earlier run, which preloadFromRedis puts into the
\* memory cache unless its scan fails
Preloaded == [h \in {Public8} |->
                 [data |-> MarshalGeo(ToGeoData(GeoJSResponse(h))), ttl |-> GeoTTL]]
\* preloadFromRedis: every geo key is added to the memory cache, which keeps
\* the ones added last (the order is that of the KEYS reply)
preloadFromRedis(gs, size) ==
    LET n == IF Cardinality(DOMAIN gs) > size THEN size ELSE Cardinality(DOMAIN gs)
        kept == CHOOSE q \in [1..n -> DOMAIN gs] :
                    \A i, j \in 1..n : q[i] = q[j] => i = j
    IN [i \in 1..n |-> [host |-> kept[i], data |-> UnmarshalGeo(gs[kept[i]].data)]]

InitGeo ==
    /\ blockedRegs = <<>>
    /\ live = <<>>
    /\ store = <<>>
    /\ clock = StartClock
    /\ tunnels = <<>>
    /\ geoCalls = {}
    /\ resp = NoResp
    /\ hist = <<>>
    /\ nReq = 0
    /\ nFlush = 0
    /\ nQuery = 0
    /\ running = TRUE
    /\ geoEnabled = TRUE
    /\ \E gs \in {<<>>, Preloaded}, scanErr \in BOOLEAN :
          /\ geoStore = gs
          /\ memCache = IF scanErr THEN <<>> ELSE preloadFromRedis(gs, GeoCacheSize)
    /\ lookups = <<>>
    /\ tickC = 0
    /\ recvq = <<>>
    /\ tickerOn = TRUE

NextGeo ==
    \/ \E h \in GeoHosts : GeoRequest(h)
    \/ \E i \in 1..Len(lookups) : Lookup(i)
    \/ \E i \in 1..Len(lookups), err \in BOOLEAN : getFromRedis(i, err)
    \/ \E i \in 1..Len(lookups) : lookupGeoJS(i)
    \/ drainTicks
    \/ rateLimiterTick
    \/ \E i \in 1..Len(lookups), ok \in BOOLEAN : GeoJSReply(i, ok)
    \/ \E i \in 1..Len(lookups), err \in BOOLEAN : saveToRedis(i, err)
    \/ \E method \in {"GET", "POST"}, keysErr \in BOOLEAN : handleGeoAPI(method, keysErr)

SpecGeo == InitGeo /\ [][NextGeo]_vars

\* the geo package with its shutdown, in a process that goes on running
NextGeoClose ==
    \/ \E h \in GeoHosts : GeoRequest(h)
    \/ \E i \in 1..Len(lookups) : Lookup(i)
    \/ \E i \in 1..Len(lookups), err \in BOOLEAN : getFromRedis(i, err)
    \/ \E i \in 1..Len(lookups) : lookupGeoJS(i)
    \/ drainTicks
    \/ rateLimiterTick
    \/ \E i \in 1..Len(lookups), ok \in BOOLEAN : GeoJSReply(i, ok)
    \/ \E i \in 1..Len(lookups), err \in BOOLEAN : saveToRedis(i, err)
    \/ Close

SpecGeoClose == InitGeo /\ [][NextGeoClose]_vars

\* the proxy with geolocation enabled: proxied requests to one allowed host,
\* the lookups that updateStats starts for them, and the flush
NextProxyGeo ==
    \/ \E n \in BodySizes : HandleHTTP(HostWeb \o Port8080, "ok", n)
    \/ \E i \in 1..Len(lookups) : Lookup(i)
    \/ \E i \in 1..Len(lookups), err \in BOOLEAN : getFromRedis(i, err)
    \/ \E i \in 1..Len(lookups) : lookupGeoJS(i)
    \/ drainTicks
    \/ rateLimiterTick
    \/ \E i \in 1..Len(lookups), ok \in BOOLEAN : GeoJSReply(i, ok)
    \/ \E i \in 1..Len(lookups), err \in BOOLEAN : saveToRedis(i, err)
    \/ saveStatsToRedis

SpecProxyGeo == InitGeo /\ [][NextProxyGeo]_vars

\* the scheduler runs every goroutine that can run, the ticker keeps ticking
\* and every upstream request ends (by its answer or by the client's timeout)
FairGeo ==
    /\ WF_vars(rateLimiterTick)
    /\ WF_vars(drainTicks)
    /\ \A i \in 1..(MaxGeoReq + 1) :
          /\ WF_vars(Lookup(i))
          /\ WF_vars(\E err \in BOOLEAN : getFromRedis(i, err))
          /\ WF_vars(lookupGeoJS(i))
          /\ WF_vars(\E ok \in BOOLEAN : GeoJSReply(i, ok))

SpecGeoLive == InitGeo /\ [][NextGeo]_vars /\ FairGeo

-----------------------------------------------------------------------------
(* Properties.                                                             *)

\* the record stored under a key
Stored(k) == Unmarshal(store[k].data)

\* the HOUR keys of a host in the keyspace
HourKeysOf(host) ==
    {k \in DOMAIN store : \E t \in 0..(MaxClock + 1) : k = HourKey(host, t)}

Refused(r) == r.status = 403 /\ r.body = "Blocked" /\ ~r.outbound

\* C1: a request the blocklist classifies as blocked is answered 403 "Blocked"
\* on the plain-HTTP path and on the CONNECT path, and no outbound request or
\* dial is made for it.
C1_BlockedIsRefused ==
    /\ (resp.handler = "HTTP" /\ isBlocked(StripPort(resp.host))) => Refused(resp)
    /\ (resp.handler = "HTTPS" /\ resp.method = "CONNECT" /\ isBlocked(resp.host))
          => Refused(resp)
    /\ (resp.handler = "HTTPS" /\ isBlocked(resp.host)) => ~resp.outbound

C1_Witness ==
    /\ resp.handler = "HTTPS" /\ resp.method = "CONNECT"
    /\ isBlocked(resp.host) /\ resp.status = 403

\* the run so far is exactly one request event followed by one flush in which
\* no store operation failed
OneThenFlush(kind, oc) ==
    /\ hist # Overflow /\ Len(hist) = 2
    /\ hist[1].k = kind /\ hist[1].oc = oc
    /\ hist[2].k = "FLUSH" /\ hist[2].oc = "ok"

\* C2: after one plain HTTP request to a blocked host and one flush, an HOUR key
\* of that host holds blocked=true, blocked_attempts=1, request_count=1 and
\* bytes_transferred=0.
C2_BlockedHTTPScenario ==
    OneThenFlush("HTTP", "blocked") =>
        \E k \in HourKeysOf(hist[1].host) :
            /\ Stored(k).Blocked
            /\ Stored(k).BlockedAttempts = 1
            /\ Stored(k).RequestCount = 1
            /\ Stored(k).BytesTransferred = 0

\* C3: one CONNECT to a blocked host is answered 403 and, after one flush, an
\* HOUR key of that host holds blocked=true and blocked_attempts=1.
C3_BlockedConnectScenario ==
    OneThenFlush("HTTPS", "blocked") =>
        /\ hist[1].status = 403
        /\ \E k \in HourKeysOf(hist[1].host) :
              Stored(k).Blocked /\ Stored(k).BlockedAttempts = 1

\* C4: after one successfully streamed HTTP response of N body bytes and one
\* flush, the host has an HOUR key, with request_count=1, connections=1,
\* blocked_attempts=0 and bytes_transferred=N.
C4_SuccessfulHTTPScenario ==
    OneThenFlush("HTTP", "ok") =>
        /\ HourKeysOf(hist[1].host) # {}
        /\ \A k \in HourKeysOf(hist[1].host) :
              /\ Stored(k).RequestCount = 1
              /\ Stored(k).Connections = 1
              /\ Stored(k).BlockedAttempts = 0
              /\ Stored(k).BytesTransferred = hist[1].n

C4_Witness ==
    /\ OneThenFlush("HTTP", "ok")
    /\ hist[1].n = 5
    /\ \E k \in HourKeysOf(hist[1].host) : Stored(k).BytesTransferred = 5

\* C5: however an established tunnel ends, after it relayed C bytes from the
\* client to the server and one flush ran, an HOUR key of the host holds
\* connections=1, request_count=1 and bytes_transferred >= C.
C5_TunnelScenario ==
    (/\ hist # Overflow /\ Len(hist) = 3
     /\ hist[1].k = "HTTPS" /\ hist[1].oc = "ok"
     /\ hist[2].k = "COPY"
     /\ hist[3].k = "FLUSH" /\ hist[3].oc = "ok")
    => \E k \in HourKeysOf(hist[1].host) :
          /\ Stored(k).Connections = 1
          /\ Stored(k).RequestCount = 1
          /\ Stored(k).BytesTransferred >= hist[2].n

NonZero(hs) == hs.Connections # 0 \/ hs.BlockedAttempts # 0 \/ hs.BytesTransferred # 0
IsZero(hs) == hs.Connections = 0 /\ hs.BlockedAttempts = 0 /\ hs.BytesTransferred = 0

\* the keys of one kind a flush cycle wrote for a host
WritesOf(host, kind) ==
    {i \in 1..Len(resp.writes) :
        /\ resp.writes[i].host = host
        /\ Split(resp.writes[i].key, Colon)[3] = <<kind>>}

\* C6: after a flush cycle (in which no store operation failed), every entry
\* that had a nonzero connections, blocked_attempts or bytes_transferred before
\* it has all three at zero, and the cycle wrote exactly one HOUR key and one
\* DAY key for the entry.
C6_FlushResetsEveryNonZeroEntry ==
    (resp.handler = "flush" /\ resp.failed = {}) =>
        \A h \in DOMAIN resp.pre :
            NonZero(resp.pre[h]) =>
                /\ IsZero(live[h])
                /\ Cardinality(WritesOf(h, "HOUR")) = 1
                /\ Cardinality(WritesOf(h, "DAY")) = 1

\* the record a key held before the flush cycle, all zero when it did not exist
StoredBefore(k) ==
    IF k \in DOMAIN resp.stored
    THEN Unmarshal(resp.stored[k].data)
    ELSE NewHostStats(<<>>, "", 0)

\* C7: the flush merge is additive: the record written to the HOUR key and to
\* the DAY key of a flushed host has connections, blocked_attempts and
\* bytes_transferred equal to the stored values plus the host's deltas.
C7_MergeIsAdditive ==
    resp.handler = "flush" =>
        \A i \in 1..Len(resp.writes) :
            LET k == resp.writes[i].key
                d == resp.pre[resp.writes[i].host]
            IN (resp.writes[i].host \notin resp.failed) =>
                  /\ Stored(k).Connections = StoredBefore(k).Connections + d.Connections
                  /\ Stored(k).BlockedAttempts =
                         StoredBefore(k).BlockedAttempts + d.BlockedAttempts
                  /\ Stored(k).BytesTransferred =
                         StoredBefore(k).BytesTransferred + d.BytesTransferred

\* C8: every record in the keyspace has blocked_attempts <= request_count and
\* bytes_transferred >= 0.
C8_BlockedAtMostRequests ==
    \A k \in DOMAIN store :
        /\ Stored(k).BlockedAttempts <= Stored(k).RequestCount
        /\ Stored(k).BytesTransferred >= 0

C8_Witness ==
    \E k \in DOMAIN store : Stored(k).BlockedAttempts >= 1 /\ Stored(k).RequestCount >= 2

\* C9: every HOUR or DAY key a flush writes for a host carries the stamp of the
\* time at which activity of that host was recorded.
C9_KeyStampedWithActivityTime ==
    (resp.handler = "flush" /\ hist # Overflow) =>
        \A i \in 1..Len(resp.writes) :
            \E j \in 1..Len(hist) :
                /\ hist[j].k \in {"HTTP", "HTTPS", "COPY"}
                /\ hist[j].host = resp.writes[i].host
                /\ resp.writes[i].key \in {HourKey(hist[j].host, hist[j].at),
                                           DayKey(hist[j].host, hist[j].at)}

\* the stamps of a key's bucket: the hours t whose HOUR or DAY key it is
BucketHours(k) ==
    {t \in 0..(MaxClock + 1) :
        \E h \in {HostAds, HostWeb} : k \in {HourKey(h, t), DayKey(h, t)}}

\* C10: query_by_date over the API returns only keys whose date lies in
\* [from_date, to_date + 1 day).
C10_DailyRangeIsHalfOpen ==
    (resp.handler = "daily" /\ resp.status = 200) =>
        \A k \in resp.keys :
            \A t \in BucketHours(k) :
                /\ ParseDay(resp.req.from_date).t <= t
                /\ t < ParseDay(resp.req.to_date).t + HoursPerDay

\* the hours t whose HOUR key a key is
HourStamps(k) ==
    {t \in 0..(MaxClock + 1) : \E h \in {HostAds, HostWeb} : k = HourKey(h, t)}

\* the hour range an answered hourly query asked for
AskedFrom(req) == IF req.method = "GET" THEN Sscanf(req.from_hour) ELSE req.FromHour
AskedTo(req) == IF req.method = "GET" THEN Sscanf(req.to_hour) ELSE req.ToHour

\* the readable HOUR keys of the asked date whose hour lies in the closed range
HourlyExpected(req) ==
    {k \in DOMAIN store :
        /\ k \notin req.unreadable
        /\ \E t \in HourStamps(k) :
              /\ FormatDay(t) = req.date
              /\ AskedFrom(req) <= t % HoursPerDay
              /\ t % HoursPerDay <= AskedTo(req)}

\* C11: an answered hourly query returns exactly the readable HOUR keys of its
\* date whose hour h has from_hour <= h <= to_hour, with their records; when no
\* stored hour is in the range it returns no keys, no records and no error.
C11_HourlyRangeIsClosed ==
    (resp.handler = "hourly" /\ resp.status = 200) =>
        /\ resp.keys = HourlyExpected(resp.req)
        /\ DOMAIN resp.records = resp.keys
        /\ \A k \in resp.keys : resp.records[k] = Stored(k)
        /\ resp.error = ""

C11_Witness ==
    /\ resp.handler = "hourly" /\ resp.status = 200
    /\ \E k \in resp.keys :
          \E t \in HourStamps(k) : t % HoursPerDay = AskedFrom(resp.req)
    /\ \E k \in DOMAIN store : k \notin resp.keys /\ HourStamps(k) # {}

C11_WitnessEmpty ==
    /\ resp.handler = "hourly" /\ resp.status = 200
    /\ AskedFrom(resp.req) = 10 /\ AskedTo(resp.req) = 16
    /\ \E k \in DOMAIN store : \E t \in HourStamps(k) : FormatDay(t) = resp.req.date
    /\ resp.keys = {} /\ resp.error = ""

\* C12: a query with bad arguments is refused with status 400: an hour outside
\* 0..23, from_hour > to_hour on the hourly endpoint, from_date > to_date on
\* the daily endpoint.
C12_BadArgsRefused ==
    /\ (/\ resp.handler = "hourly" /\ resp.req.method \in {"GET", "POST"}
        /\ ~(resp.req.method = "POST" /\ resp.req.decodeErr)
        /\ \/ AskedFrom(resp.req) \notin 0..23
           \/ AskedTo(resp.req) \notin 0..23
           \/ AskedFrom(resp.req) > AskedTo(resp.req))
       => resp.status = 400
    /\ (/\ resp.handler = "daily" /\ resp.req.method \in {"GET", "POST"}
        /\ ~ParseDay(resp.req.from_date).err /\ ~ParseDay(resp.req.to_date).err
        /\ ParseDay(resp.req.from_date).t > ParseDay(resp.req.to_date).t)
       => resp.status = 400

\* the points of a metrics answer for one host and one type
PointsOf(host, type) ==
    {i \in 1..Len(resp.metrics) :
        resp.metrics[i].host = host /\ resp.metrics[i].type = type}

\* C13: an answered metrics query holds, for every HOUR record of the last hour
\* (the bucket of the current hour or of the hour before), one point of each of
\* the types connections, bytes and blocked, with that record's values.
C13_MetricsCoverLastHour ==
    (resp.handler = "metrics" /\ resp.status = 200) =>
        \A k \in DOMAIN store :
            (HourStamps(k) \cap {clock - 1, clock} # {}) =>
                /\ \E i \in PointsOf(Stored(k).Host, "connections") :
                      resp.metrics[i].value = Stored(k).Connections
                /\ \E i \in PointsOf(Stored(k).Host, "bytes") :
                      resp.metrics[i].value = Stored(k).BytesTransferred
                /\ \E i \in PointsOf(Stored(k).Host, "blocked") :
                      resp.metrics[i].value = Stored(k).BlockedAttempts

\* the lookup has sent its GET to the upstream
Issued(l) == l.tier \in {"upstream", "failed"}

\* C15: of the lookups of one host, only one sends a GET to the upstream; the
\* others, also those that arrive while it waits for a token or is in flight,
\* are answered without one.
C15_OneUpstreamGetPerHost ==
    \A i, j \in 1..Len(lookups) :
        (i < j /\ lookups[i].host = lookups[j].host /\ lookups[i].tier = "upstream")
            => lookups[j].tier # "upstream"

\* C16: no two upstream requests are in flight during the same second.
C16_OneUpstreamInFlight ==
    Cardinality({i \in 1..Len(lookups) : lookups[i].pc = "http"}) <= 1

\* C17: while the ticker ticks, every lookup that missed both caches gets a
\* token and sends its upstream request, although the drainer receives from
\* the same channel.
C17_QueuedLookupsGetTokens ==
    \A i \in 1..(MaxGeoReq + 1) :
        (i <= Len(lookups) /\ lookups[i].pc \in {"token", "wait"})
            ~> (i <= Len(lookups) /\ Issued(lookups[i]))

C17_Witness ==
    \E i \in 1..Len(lookups) :
        /\ lookups[i].pc = "http" /\ ~lookups[i].late
        /\ \E j \in 1..Len(recvq) : recvq[j] = Drainer
        /\ \E j \in 1..Len(lookups) : j # i /\ Issued(lookups[j])

\* the listed private and loopback ranges, on the bytes of an address
InListedRanges(b) ==
    IF Len(To4(b)) = 4
    THEN LET a == To4(b)
         IN \/ a[1] = 127
            \/ a[1] = 10
            \/ (a[1] = 172 /\ a[2] >= 16 /\ a[2] <= 31)
            \/ (a[1] = 192 /\ a[2] = 168)
            \/ (a[1] = 169 /\ a[2] = 254)
    ELSE \/ b = Zeros(15) \o <<1>>
         \/ b[1] \in {252, 253}
         \/ (b[1] = 254 /\ b[2] >= 128 /\ b[2] <= 191)

\* C18: for a host string that parses as an address in the listed private and
\* loopback ranges, RecordHostLocation starts no lookup (and so no upstream
\* request is made for it).
C18_PrivateHostsNotLookedUp ==
    \A h \in geoCalls :
        (ParseIP(h).ok /\ InListedRanges(ParseIP(h).bytes)) =>
            \A i \in 1..Len(lookups) : lookups[i].host # h

C18_Witness ==
    /\ geoEnabled
    /\ Private172 \in geoCalls /\ Loopback6 \in geoCalls
    /\ lookups = <<>>

\* C14: every response of the read API (daily, hourly, metrics, geo; success,
\* 400, 405 and 500 alike) carries the CORS headers.
C14_EveryAPIResponseHasCORS ==
    resp.handler \in {"daily", "hourly", "metrics", "geo"} => resp.cors

\* C19: when the process exits on a termination signal, a final flush has
\* persisted the deltas the accumulator held (no store operation fails at exit
\* in any run of the model): no entry is left with connections or blocked
\* attempts to persist, and every such entry of the moment of the signal has
\* its HOUR and DAY keys in the store.
C19_FinalFlushOnShutdown ==
    resp.handler = "exit" =>
        /\ Pending(live) = {}
        /\ \A h \in Pending(resp.pre) :
              {HourKey(h, clock), DayKey(h, clock)} \subseteq DOMAIN store

\* the deltas of an accumulator entry
Deltas(hs) == <<hs.Connections, hs.BlockedAttempts, hs.BytesTransferred>>

\* C20: in a flush cycle, an entry with deltas is reset to zero exactly if its
\* persist call succeeded; when the call failed (on the HOUR or on the DAY
\* write) the deltas are unchanged and the cycle modified no key of the host;
\* when the deltas are reset, both keys were written.
C20_ResetIffWriteSucceeded ==
    resp.handler = "flush" =>
        \A h \in DOMAIN resp.pre :
            NonZero(resp.pre[h]) =>
                /\ IsZero(live[h]) <=> (h \in Pending(resp.pre) /\ h \notin resp.failed)
                /\ h \in resp.failed =>
                      /\ Deltas(live[h]) = Deltas(resp.pre[h])
                      /\ WritesOf(h, "HOUR") \cup WritesOf(h, "DAY") = {}
                      /\ \A k \in DOMAIN store :
                            (Split(k, Colon)[2] = h) =>
                                (k \in DOMAIN resp.stored /\ store[k] = resp.stored[k])
                /\ IsZero(live[h]) =>
                      /\ Cardinality(WritesOf(h, "HOUR")) = 1
                      /\ Cardinality(WritesOf(h, "DAY")) = 1

\* the record a key holds after the step
StoredNext(k) == Unmarshal(store'[k].data)

\* C21: no step takes a key away or, within a key, turns the stored blocked flag
\* from true to false, lowers the stored last_seen, or changes the stored host
\* or ips.
C21_StoredFieldsAreStable ==
    [][\A k \in DOMAIN store :
          /\ k \in DOMAIN store'
          /\ Stored(k).Blocked => StoredNext(k).Blocked
          /\ Stored(k).LastSeen <= StoredNext(k).LastSeen
          /\ Stored(k).Host = StoredNext(k).Host
          /\ Stored(k).IPs = StoredNext(k).IPs]_vars

\* a flush in a later hour, by a server that no longer classifies the host as
\* blocked, has updated a key whose record was blocked
C21_Witness ==
    /\ resp.handler = "flush"
    /\ \E i \in 1..Len(resp.writes) :
          LET k == resp.writes[i].key
          IN /\ k \in DOMAIN resp.stored
             /\ StoredBefore(k).Blocked
             /\ ~resp.pre[resp.writes[i].host].Blocked
             /\ StoredBefore(k).LastSeen < Stored(k).LastSeen
             /\ Stored(k).Blocked

\* the events of the history in which a handler called updateStats for a host,
\* and the arguments of the call
Recorded(e) ==
    \/ e.k = "HTTP" /\ e.oc \in {"blocked", "ok"}
    \/ e.k = "HTTPS"
    \/ e.k = "COPY" /\ e.oc = "err"
CallsFor(h) == {i \in 1..Len(hist) : hist[i].host = h /\ Recorded(hist[i])}
WasBlocked(e) == e.oc = "blocked"
WasIncrement(e) == e.k = "HTTPS" \/ (e.k = "HTTP" /\ e.oc = "ok")

RECURSIVE SumBytes(_)
SumBytes(S) ==
    IF S = {} THEN 0
    ELSE LET i == CHOOSE j \in S : TRUE IN hist[i].n + SumBytes(S \ {i})

\* the history holds requests and tunnel copies only, with the blocked verdict
\* of each of them
OnlyRecords ==
    /\ hist # Overflow
    /\ \A i \in 1..Len(hist) : hist[i].k # "FLUSH" /\ hist[i].oc # "notConnect"

\* C22: before any flush, the accumulator entry of a host is what the calls of
\* record made for it add up to: connections and request_count count the calls
\* with increment_connection, bytes_transferred sums the bytes, blocked is set
\* by any blocked call, blocked_attempts counts the blocked calls with
\* increment_connection, and last_seen is the time of the last call.
C22_RecordUpdatesAccumulator ==
    OnlyRecords =>
        \A h \in DOMAIN live :
            LET calls == CallsFor(h)
                incr == {i \in calls : WasIncrement(hist[i])}
            IN /\ live[h].Connections = Cardinality(incr)
               /\ live[h].RequestCount = Cardinality(incr)
               /\ live[h].BytesTransferred = SumBytes(calls)
               /\ live[h].Blocked = (\E i \in calls : WasBlocked(hist[i]))
               /\ live[h].BlockedAttempts =
                      Cardinality({i \in incr : WasBlocked(hist[i])})
               /\ calls # {} => live[h].LastSeen = hist[Max(calls)].at

\* C22 without request_count and last_seen
C22_CountersBytesAndFlag ==
    OnlyRecords =>
        \A h \in DOMAIN live :
            LET calls == CallsFor(h)
                incr == {i \in calls : WasIncrement(hist[i])}
            IN /\ live[h].Connections = Cardinality(incr)
               /\ live[h].BytesTransferred = SumBytes(calls)
               /\ live[h].Blocked = (\E i \in calls : WasBlocked(hist[i]))
               /\ live[h].BlockedAttempts =
                      Cardinality({i \in incr : WasBlocked(hist[i])})

\* C23: on both proxy paths a request is refused as blocked exactly if the
\* blocklist matches its host with the port stripped, so a host name gets the
\* same verdict by plain HTTP and by CONNECT host:port.
C23_SameVerdictOnBothPaths ==
    /\ resp.handler = "HTTP" =>
          (Refused(resp) <=> isBlocked(StripPort(resp.host)))
    /\ (resp.handler = "HTTPS" /\ resp.method = "CONNECT") =>
          (Refused(resp) <=> isBlocked(StripPort(resp.host)))

\* the connections and blocked attempts the accumulator holds for a host
ConnectionsOf(lv, h) == IF h \in DOMAIN lv THEN lv[h].Connections ELSE 0
BlockedAttemptsOf(lv, h) == IF h \in DOMAIN lv THEN lv[h].BlockedAttempts ELSE 0

\* C24: a step that handles a CONNECT request raises the connections of its
\* host by exactly one, whatever the outcome of the request, and a step in
\* which a copy of a tunnel ends changes no entry's connections or blocked
\* attempts.
C24_ConnectCountsOnceAtHandshake ==
    [][/\ (nReq' = nReq + 1 /\ resp'.handler = "HTTPS" /\ resp'.method = "CONNECT") =>
             /\ ConnectionsOf(live', StripPort(resp'.host))
                    = ConnectionsOf(live, StripPort(resp'.host)) + 1
             /\ \A h \in DOMAIN live' \ {StripPort(resp'.host)} :
                    ConnectionsOf(live', h) = ConnectionsOf(live, h)
       /\ (nReq' = nReq /\ tunnels' # tunnels) =>
             \A h \in DOMAIN live' :
                 /\ ConnectionsOf(live', h) = ConnectionsOf(live, h)
                 /\ BlockedAttemptsOf(live', h) = BlockedAttemptsOf(live, h)]_vars

\* a CONNECT whose hijack failed and an established tunnel whose copy accounted
\* bytes: one connection each
C24_Witness ==
    /\ hist # Overflow /\ Len(hist) = 3
    /\ hist[1].k = "HTTPS" /\ hist[1].oc = "hijackErr"
    /\ hist[2].k = "HTTPS" /\ hist[2].oc = "ok" /\ hist[2].host = hist[1].host
    /\ hist[3].k = "COPY" /\ hist[3].oc = "err" /\ hist[3].n = 7
    /\ live[hist[1].host].Connections = 2
    /\ live[hist[1].host].BytesTransferred = 7

\* C25: once one of the two copies of an established tunnel has completed,
\* the client connection and the upstream connection are closed, and the
\* other copy terminates as well.
C25_TunnelTornDown ==
    /\ [](\A i \in 1..Len(tunnels) :
             (tunnels[i].c2s = "done" \/ tunnels[i].s2c = "done") =>
                 (~tunnels[i].clientOpen /\ ~tunnels[i].destOpen))
    /\ \A i \in 1..(MaxReq + 1) :
          (i <= Len(tunnels) /\ (tunnels[i].c2s = "done" \/ tunnels[i].s2c = "done"))
              ~> (i <= Len(tunnels) /\ tunnels[i].c2s = "done" /\ tunnels[i].s2c = "done")

\* the client closed its side cleanly, which ended the client-to-server copy,
\* and the server-to-client copy has ended after it
C25_Witness ==
    /\ hist # Overflow /\ Len(hist) = 2
    /\ hist[1].k = "HTTPS" /\ hist[1].oc = "ok"
    /\ hist[2].k = "COPY" /\ hist[2].oc = "eof"
    /\ tunnels[1].c2s = "done" /\ tunnels[1].s2c = "done"
    /\ ~tunnels[1].clientOpen /\ ~tunnels[1].destOpen

\* the handler's answer reports a failed take-over of the client connection
HijackFailed(r) ==
    r.handler = "HTTPS" /\ r.body \in {"Hijacking not supported", "hijack error"}

\* C26: when HandleHTTPS has failed to take over the client connection after
\* its dial succeeded, it has answered 500 and the upstream connection it
\* dialed is closed (no goroutine holds that connection, so what the handler
\* leaves open stays open).
C26_HijackFailureClosesUpstream ==
    HijackFailed(resp) =>
        /\ resp.status = 500
        /\ ~tunnels[Len(tunnels)].destOpen

\* the step has put a failed forwarded plain-HTTP request into the history
FailedHTTPStep(oc) ==
    /\ hist' # hist /\ hist' # Overflow
    /\ hist'[Len(hist')].k = "HTTP" /\ hist'[Len(hist')].oc = oc

\* C27: a step of HandleHTTP whose upstream request fails answers 502, and
\* such a step, like one whose body copy fails mid-stream, leaves the
\* accumulator as it was (no entry created, no bytes, no connection).
C27_FailedHTTPRecordsNothing ==
    [][/\ FailedHTTPStep("upErr") => (resp'.status = 502 /\ live' = live)
       /\ FailedHTTPStep("copyErr") => live' = live]_vars

\* a request accounted with 5 bytes, then a request to the same host whose
\* copy failed mid-stream: the entry still holds one connection and 5 bytes
C27_Witness ==
    /\ hist # Overflow /\ Len(hist) = 2
    /\ hist[1].k = "HTTP" /\ hist[1].oc = "ok" /\ hist[1].n = 5
    /\ hist[2].k = "HTTP" /\ hist[2].oc = "copyErr" /\ hist[2].host = hist[1].host
    /\ live[hist[1].host].Connections = 1
    /\ live[hist[1].host].BytesTransferred = 5

\* C28: a lookup is answered from the LRU only when the LRU holds its host,
\* and then it goes no further; it asks the store only after the LRU missed;
\* a lookup answered from the store finds its host there, has the host in the
\* LRU when it returns and makes no upstream request; a lookup heads for the
\* upstream only from the store tier, and sends its GET only from there.
C28_TiersInOrder ==
    [][\A i \in 1..Len(lookups) :
          LET l == lookups[i]
              n == lookups'[i]
          IN /\ (l.pc = "start" /\ n.pc # "start") =>
                    IF lruHas(memCache, l.host)
                    THEN n.pc = "done" /\ n.tier = "memory" /\ geoStore' = geoStore
                    ELSE n.pc = "redis" /\ n.tier = "none"
             /\ (l.pc = "redis" /\ n.pc # "redis") =>
                    \/ /\ n.pc = "done" /\ n.tier = "redis"
                       /\ l.host \in DOMAIN geoStore
                       /\ lruHas(memCache', l.host)
                    \/ n.pc = "token" /\ n.tier = "none"
             /\ (~Issued(l) /\ Issued(n)) => l.pc \in {"token", "wait"}
             /\ (l.pc \notin {"token", "wait"} /\ n.pc \in {"token", "wait"}) =>
                    l.pc = "redis"
             /\ l.pc = "done" => n = l]_vars

\* one lookup answered from the store, with its host now in the LRU, and a
\* later one of the same host answered from the LRU
C28_Witness ==
    \E i, j \in 1..Len(lookups) :
        /\ i < j /\ lookups[i].host = lookups[j].host
        /\ lookups[i].pc = "done" /\ lookups[i].tier = "redis"
        /\ lookups[j].pc = "done" /\ lookups[j].tier = "memory"
        /\ lruHas(memCache, lookups[i].host)

\* C29: the step in which a lookup's upstream request fails ends the lookup
\* with an error as its result and changes neither the LRU nor the store
\* (nor anything else: the goroutine of LookupAsync drops the error), and a
\* failed lookup saves nothing later.
C29_FailedLookupChangesNothing ==
    [][\A i \in 1..Len(lookups) :
          /\ (lookups[i].tier # "failed" /\ lookups'[i].tier = "failed") =>
                /\ lookups[i].pc = "http" /\ lookups'[i].pc = "done"
                /\ memCache' = memCache
                /\ geoStore' = geoStore
                /\ resp' = NoResp
                /\ UNCHANGED <<live, store, geoCalls, tickC, recvq>>
          /\ lookups[i].tier = "failed" => lookups'[i] = lookups[i]]_vars

\* a lookup has failed at the upstream and its host is in neither cache
C29_Witness ==
    \E i \in 1..Len(lookups) :
        /\ lookups[i].tier = "failed" /\ lookups[i].pc = "done"
        /\ ~lruHas(memCache, lookups[i].host)
        /\ lookups[i].host \notin DOMAIN geoStore

\* C30: once the geo package is shut down, no goroutine is parked on the rate
\* limiter's channel: the drainer's loop has ended and no lookup waits for a
\* token (a receiver parked on a stopped ticker is never woken, so being
\* parked after the shutdown is being blocked for ever).
C30_ShutdownEndsBackgroundActivity ==
    (geoEnabled /\ ~tickerOn) => recvq = <<>>

\* the flush cycle just ended persisted the host: both of its keys were
\* written and are in the store, and its counters are reset
PersistedInCycle(h) ==
    /\ \E i \in 1..Len(resp.writes) :
          resp.writes[i] = [host |-> h, key |-> HourKey(h, resp.at)]
    /\ \E i \in 1..Len(resp.writes) :
          resp.writes[i] = [host |-> h, key |-> DayKey(h, resp.at)]
    /\ {HourKey(h, resp.at), DayKey(h, resp.at)} \subseteq DOMAIN store
    /\ live[h].Connections = 0 /\ live[h].BlockedAttempts = 0
    /\ live[h].BytesTransferred = 0

\* a flush cycle in which the store failed for some host has just ended
FailedCycle == resp.handler = "flush" /\ resp.failed # {}

\* C31: a flush cycle persists every pending host whose own store operations
\* worked, whatever happened to the other hosts of the cycle, and keeps the
\* counters of the hosts that failed; and after a cycle with failures the
\* timer goes on: while the process runs, the next cycle follows.
C31_FlushFailuresIsolated ==
    /\ [](resp.handler = "flush" =>
            /\ resp.failed \subseteq Pending(resp.pre)
            /\ \A h \in Pending(resp.pre) \ resp.failed : PersistedInCycle(h)
            /\ \A h \in resp.failed :
                  /\ live[h].Connections = resp.pre[h].Connections
                  /\ live[h].BytesTransferred = resp.pre[h].BytesTransferred)
    /\ \A k \in 1..(MaxFlush - 1) :
          (FailedCycle /\ nFlush = k) ~> (nFlush > k \/ ~running)

\* a cycle in which one host failed and another was persisted, with a later
\* cycle still to come
C31_Witness ==
    /\ FailedCycle
    /\ Pending(resp.pre) \ resp.failed # {}
    /\ nFlush < MaxFlush
    /\ running

\* the step is a query of the read API
QueryStep == nQuery' = nQuery + 1

\* the answer the same query gets when every record can be read
AllReadable(r) ==
    IF r.handler = "daily"
    THEN DailyResponse(store, [r.req EXCEPT !.unreadable = {}])
    ELSE HourlyResponse(store, [r.req EXCEPT !.unreadable = {}])

\* C32: a query by date, a query by hour and the metrics query leave the
\* keyspace as it was, key by key with value and TTL; a query that meets a
\* record it cannot read still succeeds, leaves that key in the store and
\* returns every other key it would have returned, with the same records.
C32_QueriesNeverMutate ==
    [][QueryStep =>
          /\ resp'.handler \in {"daily", "hourly", "metrics"}
          /\ store' = store
          /\ live' = live
          /\ (resp'.handler \in {"daily", "hourly"} /\ resp'.req.unreadable # {}) =>
                /\ resp'.status = 200
                /\ resp'.req.unreadable \subseteq DOMAIN store'
                /\ resp'.keys = AllReadable(resp').keys \ resp'.req.unreadable
                /\ \A k \in resp'.keys :
                      resp'.records[k] = AllReadable(resp').records[k]]_vars

\* a query met a record in its range that it could not read, returned
\* another key, and the unreadable key is still stored
C32_Witness ==
    /\ resp.handler \in {"daily", "hourly"}
    /\ resp.req.unreadable # {}
    /\ resp.req.unreadable \subseteq AllReadable(resp).keys
    /\ resp.req.unreadable \subseteq DOMAIN store
    /\ resp.keys # {}

\* the third field of a statistics key: HOUR or DAY
KeyKind(key) == Split(key, Colon)[3][1]

\* C33: every key a flush cycle writes, new or already stored, has a TTL of
\* 15 days (in hours) if it is an HOUR key and of 90 days if it is a DAY key,
\* and so has every stored statistics key; every geo record a lookup saves is
\* stored under the host the lookup was made for (the host with its port
\* removed), with a TTL of 7 days (in seconds), and so is every stored geo
\* record.
C33_WritesSetTheTTL ==
    [][/\ resp'.handler = "flush" =>
             \A i \in 1..Len(resp'.writes) :
                 /\ resp'.writes[i].key \in DOMAIN store'
                 /\ KeyKind(resp'.writes[i].key) \in {"HOUR", "DAY"}
       /\ \A k \in DOMAIN store' :
             store'[k].ttl = IF KeyKind(k) = "HOUR" THEN 15 * HoursPerDay
                             ELSE 90 * HoursPerDay
       /\ \A i \in 1..Len(lookups) :
             (lookups[i].pc = "save" /\ lookups'[i].pc = "done") =>
                 \/ geoStore' = geoStore
                 \/ /\ DOMAIN geoStore' = DOMAIN geoStore \cup {lookups[i].host}
                    /\ \A h \in DOMAIN geoStore \ {lookups[i].host} :
                          geoStore'[h] = geoStore[h]
                    /\ \A j \in 1..Len(lookups[i].host) : lookups[i].host[j] # Colon
       /\ (\A i \in 1..Len(lookups) : ~(lookups[i].pc = "save" /\ lookups'[i].pc = "done"))
             => geoStore' = geoStore
       /\ \A h \in DOMAIN geoStore' : geoStore'[h].ttl = 7 * HoursPerDay * 3600]_vars

\* an HOUR key and a DAY key that a second flush has updated, and a geo record
\* that a lookup of this run has saved
C33_Witness ==
    /\ resp.handler = "flush" /\ Len(resp.writes) = 2
    /\ \A i \in 1..2 : resp.writes[i].key \in DOMAIN resp.stored
    /\ \E i \in 1..Len(lookups) :
          /\ lookups[i].pc = "done" /\ lookups[i].tier = "upstream"
          /\ lookups[i].host \in DOMAIN geoStore

\* the HOUR keys of a host: HOST:<host>:HOUR:<hour>
HourKeysIn(st, h) ==
    {k \in DOMAIN st :
        GlobMatch(<<"HOST", Colon>> \o h \o <<Colon, "HOUR", Colon, Star>>, k)}

RECURSIVE StoredBytes(_, _)
StoredBytes(st, K) ==
    IF K = {} THEN 0
    ELSE LET k == CHOOSE x \in K : TRUE
         IN st[k].data.bytes_transferred + StoredBytes(st, K \ {k})

\* the bytes the accumulator holds for a host
HeldBytes(lv, h) == IF h \in DOMAIN lv THEN lv[h].BytesTransferred ELSE 0

\* the bytes of a host, persisted or still held
TotalBytes(st, lv, h) == StoredBytes(st, HourKeysIn(st, h)) + HeldBytes(lv, h)

\* the whole run is in the history and no flush cycle of it met a store error
NoStoreFailure ==
    /\ hist # Overflow
    /\ \A i \in 1..Len(hist) : hist[i].k = "FLUSH" => hist[i].oc = "ok"

\* the hosts that record was called for
RecordedHosts == {hist[i].host : i \in {j \in 1..Len(hist) : Recorded(hist[j])}}

\* C34: when no store operation has failed, the bytes in a host's HOUR keys
\* plus the bytes the accumulator holds for it are the bytes that the calls of
\* record passed for that host, however the calls and the flush cycles
\* interleave.
C34_BytesConserved ==
    NoStoreFailure =>
        \A h \in RecordedHosts : TotalBytes(store, live, h) = SumBytes(CallsFor(h))

\* C34 for the hosts that hold no colon (names and IPv4 addresses)
C34_BytesConservedNoColon ==
    NoStoreFailure =>
        \A h \in RecordedHosts :
            (\A j \in 1..Len(h) : h[j] # Colon) =>
                TotalBytes(store, live, h) = SumBytes(CallsFor(h))

\* C34 step by step, for the hosts that hold no colon: a flush cycle without
\* a store error moves bytes from the accumulator to the HOUR keys and keeps
\* their sum, and no other step touches the keys
C34_FlushKeepsTheSum ==
    [][\A h \in DOMAIN live :
          (\A j \in 1..Len(h) : h[j] # Colon) =>
              IF nFlush' # nFlush
              THEN resp'.failed = {} =>
                      TotalBytes(store', live', h) = TotalBytes(store, live, h)
              ELSE store' = store]_vars

\* a named host's bytes were counted by a tunnel copy and persisted by a flush
C34_Reached ==
    /\ NoStoreFailure
    /\ \E h \in RecordedHosts :
          /\ SumBytes(CallsFor(h)) > 0
          /\ StoredBytes(store, HourKeysIn(store, h)) = SumBytes(CallsFor(h))

\* the hosts that have a record in the keyspace
StoredHosts(st) == {st[k].data.host : k \in DOMAIN st}

\* the HOUR keys of a host that belong to the day beginning at hour d0
HourKeysOfDay(st, h, d0) ==
    {k \in DOMAIN st : \E t \in d0..(d0 + HoursPerDay - 1) : k = HourKey(h, t)}

RECURSIVE SumField(_, _, _)
SumField(st, K, f) ==
    IF K = {} THEN 0
    ELSE LET k == CHOOSE x \in K : TRUE
         IN st[k].data[f] + SumField(st, K \ {k}, f)

\* the DAY key of every host and day is there exactly when the day has HOUR
\* keys, and holds the sums of their counters
HourDayAgree(st) ==
    \A h \in StoredHosts(st), d \in 0..((MaxClock + 1) \div HoursPerDay) :
        LET hk == HourKeysOfDay(st, h, d * HoursPerDay)
            dk == DayKey(h, d * HoursPerDay)
        IN (hk # {} \/ dk \in DOMAIN st) =>
              /\ dk \in DOMAIN st
              /\ \A f \in {"connections", "request_count", "bytes_transferred"} :
                    st[dk].data[f] = SumField(st, hk, f)

\* C35: whatever record calls and flush cycles have run, and whichever store
\* operations of those cycles failed, the DAY key of each host and day holds
\* the sums of connections, request_count and bytes_transferred over the
\* host's HOUR keys of that day.
C35_HourDayAgree == HourDayAgree(store)

\* the flush cycle just ended wrote the HOUR key of a host whose DAY key it
\* then failed to write
PartialWrite(r) ==
    /\ r.handler = "flush"
    /\ \E i \in 1..Len(r.writes) : r.writes[i].host \in r.failed

\* C35 for the cycles that write both keys of a host or neither: such a step,
\* and every step that is no flush, keeps the agreement
C35_AgreeUnlessPartialWrite ==
    [][(HourDayAgree(store) /\ ~PartialWrite(resp')) => HourDayAgree(store')]_vars

\* two HOUR keys of one day add up to their DAY key
C35_Reached ==
    /\ HourDayAgree(store)
    /\ \E h \in StoredHosts(store), d \in 0..((MaxClock + 1) \div HoursPerDay) :
          Cardinality(HourKeysOfDay(store, h, d * HoursPerDay)) >= 2

\* the run so far is requests on the tunnel endpoint whose method was not
\* CONNECT, and nothing else
OnlyRejectedMethods ==
    /\ hist # Overflow /\ hist # <<>>
    /\ \A i \in 1..Len(hist) :
          hist[i].k = "HTTPS" /\ hist[i].oc = "notConnect" /\ hist[i].status = 405

\* C36: requests that the tunnel endpoint rejects with 405 leave the
\* accumulator as it was (no host gains an entry, a connection or a blocked
\* attempt), hand no host to the geo package and dial no upstream.
C36_RejectedMethodRecordsNothing ==
    OnlyRejectedMethods => (live = <<>> /\ geoCalls = {} /\ tunnels = <<>>)

\* C36, the dial alone: a request rejected with 405 has made no outbound
\* connection and no tunnel
C36_RejectedMethodDialsNothing ==
    /\ (resp.handler = "HTTPS" /\ resp.status = 405) => ~resp.outbound
    /\ OnlyRejectedMethods => tunnels = <<>>

\* a rejected request has been counted as a connection of its host
C36_Reached ==
    /\ OnlyRejectedMethods
    /\ resp.handler = "HTTPS" /\ resp.status = 405
    /\ \E h \in DOMAIN live : live[h].Connections > 0

====
